---- MODULE Spec2Model ----
(***************************************************************************)
(* Model of the BunkerWeb API client (bunkerWebClient) of the Terraform    *)
(* provider, together with the in-memory control plane it is exercised     *)
(* against (fakeBunkerWebAPI).                                             *)
(*                                                                         *)
(* Go strings are modelled as sequences of one-character strings, so that  *)
(* trimming, case folding, path cleaning, URL splitting and base64 are     *)
(* computed character by character as the code computes them.              *)
(***************************************************************************)
EXTENDS Integers, Sequences, FiniteSets, TLC

(***************************************************************************)
(* Characters and strings                                                  *)
(***************************************************************************)

\* The printable ASCII characters in code order, 32 (space) .. 126 (~); the
\* grave accent (96) is never used and is held by a placeholder.
Printable ==
  << " ", "!", "\"", "#", "$", "%", "&", "'", "(", ")", "*", "+", ",", "-", ".", "/",
     "0", "1", "2", "3", "4", "5", "6", "7", "8", "9", ":", ";", "<", "=", ">", "?",
     "@", "A", "B", "C", "D", "E", "F", "G", "H", "I", "J", "K", "L", "M", "N", "O",
     "P", "Q", "R", "S", "T", "U", "V", "W", "X", "Y", "Z", "[", "\\", "]", "^", "_",
     "GRAVE", "a", "b", "c", "d", "e", "f", "g", "h", "i", "j", "k", "l", "m", "n", "o",
     "p", "q", "r", "s", "t", "u", "v", "w", "x", "y", "z", "{", "|", "}", "~" >>

\* Byte value of every character in use (tab and newline are the only
\* non-printables).
Positions(seq) == [c \in {seq[i] : i \in DOMAIN seq} |-> CHOOSE i \in DOMAIN seq : seq[i] = c]

OrdTable == Positions(Printable)

Ord(c) == IF c = "\t" THEN 9 ELSE IF c = "\n" THEN 10 ELSE 31 + OrdTable[c]

\* Character of a byte value.
Chr(n) ==
  IF n = 9 THEN "\t"
  ELSE IF n = 10 THEN "\n"
  ELSE Printable[n - 31]

\* unicode.IsSpace restricted to ASCII.
IsSpace(c) == c \in {" ", "\t", "\n"}

\* strings.TrimSpace
RECURSIVE TrimLeft(_)
TrimLeft(s) ==
  IF s = <<>> THEN <<>>
  ELSE IF IsSpace(Head(s)) THEN TrimLeft(Tail(s))
  ELSE s

RECURSIVE TrimRight(_)
TrimRight(s) ==
  IF s = <<>> THEN <<>>
  ELSE IF IsSpace(s[Len(s)]) THEN TrimRight(SubSeq(s, 1, Len(s) - 1))
  ELSE s

TrimSpace(s) == TrimRight(TrimLeft(s))

\* strings.ToLower restricted to ASCII.
\* c + ('a' - 'A') for 'A' <= c <= 'Z'
lowerByte(n) == IF n >= 65 /\ n <= 90 THEN n + 32 ELSE n

ToLowerChar(c) == Chr(lowerByte(Ord(c)))

ToLower(s) == [i \in 1..Len(s) |-> ToLowerChar(s[i])]

\* strings.EqualFold restricted to ASCII.
EqualFold(s, t) == ToLower(s) = ToLower(t)

\* strings.HasPrefix / strings.HasSuffix / strings.TrimPrefix / strings.TrimSuffix
HasPrefix(s, p) == Len(s) >= Len(p) /\ SubSeq(s, 1, Len(p)) = p

HasSuffix(s, p) == Len(s) >= Len(p) /\ SubSeq(s, Len(s) - Len(p) + 1, Len(s)) = p

TrimPrefix(s, p) == IF HasPrefix(s, p) THEN SubSeq(s, Len(p) + 1, Len(s)) ELSE s

TrimSuffix(s, p) == IF HasSuffix(s, p) THEN SubSeq(s, 1, Len(s) - Len(p)) ELSE s

\* Index of the first occurrence of character c in s, 0 when absent.
IndexChar(s, c) ==
  IF \E i \in 1..Len(s) : s[i] = c
  THEN CHOOSE i \in 1..Len(s) : s[i] = c /\ \A j \in 1..(i - 1) : s[j] # c
  ELSE 0

\* strings.Split(s, sep) for a one-character separator.
RECURSIVE Split(_, _)
Split(s, c) ==
  LET i == IndexChar(s, c)
  IN IF i = 0 THEN << s >>
     ELSE << SubSeq(s, 1, i - 1) >> \o Split(SubSeq(s, i + 1, Len(s)), c)

\* strings.Join(parts, sep)
RECURSIVE JoinWith(_, _)
JoinWith(parts, sep) ==
  IF parts = <<>> THEN <<>>
  ELSE IF Len(parts) = 1 THEN parts[1]
  ELSE parts[1] \o sep \o JoinWith(Tail(parts), sep)

\* An optional string (*string): nil, or a pointer to a value.
Nil == [set |-> FALSE, val |-> <<>>]

Ptr(s) == [set |-> TRUE, val |-> s]

(***************************************************************************)
(* encoding/base64 (StdEncoding)                                           *)
(***************************************************************************)

B64Alphabet ==
  << "A", "B", "C", "D", "E", "F", "G", "H", "I", "J", "K", "L", "M", "N", "O", "P",
     "Q", "R", "S", "T", "U", "V", "W", "X", "Y", "Z", "a", "b", "c", "d", "e", "f",
     "g", "h", "i", "j", "k", "l", "m", "n", "o", "p", "q", "r", "s", "t", "u", "v",
     "w", "x", "y", "z", "0", "1", "2", "3", "4", "5", "6", "7", "8", "9", "+", "/" >>

B64Char(n) == B64Alphabet[n + 1]

B64Val(c) == (CHOOSE i \in 1..64 : B64Alphabet[i] = c) - 1

IsB64Char(c) == \E i \in 1..64 : B64Alphabet[i] = c

\* base64.StdEncoding.EncodeToString([]byte(s))
\* One group of the encoding: the 24 bits n of up to three bytes, of which
\* len are present.
b64Group(n, len) ==
  << B64Char(n \div 262144), B64Char((n \div 4096) % 64),
     IF len >= 2 THEN B64Char((n \div 64) % 64) ELSE "=",
     IF len >= 3 THEN B64Char(n % 64) ELSE "=" >>

byteAt(s, i) == IF i <= Len(s) THEN Ord(s[i]) ELSE 0

RECURSIVE EncodeToString(_)
EncodeToString(s) ==
  IF s = <<>> THEN <<>>
  ELSE b64Group(byteAt(s, 1) * 65536 + byteAt(s, 2) * 256 + byteAt(s, 3), Len(s))
       \o EncodeToString(SubSeq(s, 4, Len(s)))

\* base64.StdEncoding.DecodeString(s): [ok, val]
RECURSIVE DecodeString(_)
DecodeString(s) ==
  IF s = <<>> THEN [ok |-> TRUE, val |-> <<>>]
  ELSE IF Len(s) < 4 \/ ~IsB64Char(s[1]) \/ ~IsB64Char(s[2]) THEN [ok |-> FALSE, val |-> <<>>]
  ELSE IF s[3] = "=" THEN
    IF Len(s) = 4 /\ s[4] = "="
    THEN LET n == B64Val(s[1]) * 262144 + B64Val(s[2]) * 4096
         IN [ok |-> TRUE, val |-> << Chr(n \div 65536) >>]
    ELSE [ok |-> FALSE, val |-> <<>>]
  ELSE IF ~IsB64Char(s[3]) THEN [ok |-> FALSE, val |-> <<>>]
  ELSE IF s[4] = "=" THEN
    IF Len(s) = 4
    THEN LET n == B64Val(s[1]) * 262144 + B64Val(s[2]) * 4096 + B64Val(s[3]) * 64
         IN [ok |-> TRUE, val |-> << Chr(n \div 65536), Chr((n \div 256) % 256) >>]
    ELSE [ok |-> FALSE, val |-> <<>>]
  ELSE IF ~IsB64Char(s[4]) THEN [ok |-> FALSE, val |-> <<>>]
  ELSE
    LET n == B64Val(s[1]) * 262144 + B64Val(s[2]) * 4096 + B64Val(s[3]) * 64 + B64Val(s[4])
        rest == DecodeString(SubSeq(s, 5, Len(s)))
    IN IF rest.ok
       THEN [ok |-> TRUE,
             val |-> << Chr(n \div 65536), Chr((n \div 256) % 256), Chr(n % 256) >> \o rest.val]
       ELSE [ok |-> FALSE, val |-> <<>>]

(***************************************************************************)
(* path.Clean / path.Join and URL reference resolution                     *)
(***************************************************************************)

\* The element stack path.Clean keeps while it walks the elements of a path.
RECURSIVE CleanElems(_, _, _)
CleanElems(elems, stack, rooted) ==
  IF elems = <<>> THEN stack
  ELSE LET e == Head(elems)
           rest == Tail(elems)
       IN IF e = <<>> \/ e = << "." >> THEN CleanElems(rest, stack, rooted)
          ELSE IF e = << ".", "." >> THEN
            IF stack # <<>> /\ stack[Len(stack)] # << ".", "." >>
            THEN CleanElems(rest, SubSeq(stack, 1, Len(stack) - 1), rooted)
            ELSE IF rooted THEN CleanElems(rest, stack, rooted)
            ELSE CleanElems(rest, Append(stack, e), rooted)
          ELSE CleanElems(rest, Append(stack, e), rooted)

\* path.Clean
Clean(p) ==
  IF p = <<>> THEN << "." >>
  ELSE LET rooted == Head(p) = "/"
           stack == CleanElems(Split(p, "/"), <<>>, rooted)
           body == JoinWith(stack, << "/" >>)
       IN IF rooted THEN << "/" >> \o body
          ELSE IF body = <<>> THEN << "." >>
          ELSE body

\* The non-empty elements path.Join keeps (empty elements add nothing that
\* path.Clean does not remove again).
RECURSIVE NonEmpty(_)
NonEmpty(elems) ==
  IF elems = <<>> THEN <<>>
  ELSE IF Head(elems) = <<>> THEN NonEmpty(Tail(elems))
  ELSE << Head(elems) >> \o NonEmpty(Tail(elems))

\* path.Join
Join(elems) ==
  IF NonEmpty(elems) = <<>> THEN <<>>
  ELSE Clean(JoinWith(NonEmpty(elems), << "/" >>))

\* net/url resolvePath's walk: "." is dropped, ".." pops, everything else
\* (empty elements included) is kept.
RECURSIVE ResolveElems(_, _)
ResolveElems(elems, stack) ==
  IF elems = <<>> THEN stack
  ELSE LET e == Head(elems)
           rest == Tail(elems)
       IN IF e = << "." >> THEN ResolveElems(rest, stack)
          ELSE IF e = << ".", "." >> THEN
            ResolveElems(rest, IF stack = <<>> THEN stack ELSE SubSeq(stack, 1, Len(stack) - 1))
          ELSE ResolveElems(rest, Append(stack, e))

\* Index of the last occurrence of character c in s, 0 when absent.
LastIndexChar(s, c) ==
  IF \E i \in 1..Len(s) : s[i] = c
  THEN CHOOSE i \in 1..Len(s) : s[i] = c /\ \A j \in (i + 1)..Len(s) : s[j] # c
  ELSE 0

\* net/url resolvePath(base, ref)
resolvePath(base, ref) ==
  LET full == IF ref = <<>> THEN base
              ELSE IF Head(ref) # "/" THEN SubSeq(base, 1, LastIndexChar(base, "/")) \o ref
              ELSE ref
  IN IF full = <<>> THEN <<>>
     ELSE LET elems == Split(TrimPrefix(full, << "/" >>), "/")
              last == elems[Len(elems)]
              stack == ResolveElems(elems, <<>>)
              tail == IF last = << "." >> \/ last = << ".", "." >> THEN << <<>> >> ELSE <<>>
          IN << "/" >> \o JoinWith(stack \o tail, << "/" >>)

(***************************************************************************)
(* Text constants                                                          *)
(***************************************************************************)

sGlobal == << "g", "l", "o", "b", "a", "l" >>

sBearer == << "B", "e", "a", "r", "e", "r", " " >>

sBasic == << "B", "a", "s", "i", "c", " " >>

sOk == << "o", "k" >>

sSuccess == << "s", "u", "c", "c", "e", "s", "s" >>

sError == << "e", "r", "r", "o", "r" >>

sTrue == << "t", "r", "u", "e" >>

sConfigs == << "c", "o", "n", "f", "i", "g", "s" >>

sAuth == << "a", "u", "t", "h" >>

sPing == << "p", "i", "n", "g" >>

sWithData == << "w", "i", "t", "h", "_", "d", "a", "t", "a" >>

(***************************************************************************)
(* HTTP responses                                                          *)
(***************************************************************************)

\* The envelope's data member: absent, JSON null, or a value.  A value is a
\* JSON object (obj = TRUE, its members in val) or anything else.
NoData == [kind |-> "absent", obj |-> FALSE, val |-> [none |-> TRUE]]

NullData == [kind |-> "null", obj |-> FALSE, val |-> [none |-> TRUE]]

ObjData(v) == [kind |-> "value", obj |-> TRUE, val |-> v]

ScalarData == [kind |-> "value", obj |-> FALSE, val |-> [none |-> TRUE]]

\* A response body: its raw text, and what json.Unmarshal into
\* bunkerWebAPIEnvelope makes of it (valid = no error).
Body(raw, valid, status, message, data) ==
  [raw |-> raw, valid |-> valid, status |-> status, message |-> message, data |-> data]

\* A response as c.httpClient.Do returns it: neterr = the call itself failed.
Response(code, line, body) == [neterr |-> FALSE, code |-> code, line |-> line, body |-> body]

NetworkFailure ==
  [neterr |-> TRUE, code |-> 0, line |-> <<>>, body |-> Body(<<>>, FALSE, <<>>, <<>>, NoData)]

\* Decimal digits of a three-digit status code.
Digits(n) == << Chr(48 + (n \div 100)), Chr(48 + ((n \div 10) % 10)), Chr(48 + (n % 10)) >>

(***************************************************************************)
(* bunkerWebClient: request construction                                   *)
(***************************************************************************)

\* Path of the base URL after newBunkerWebClient closed it with a slash.
NormalizeBasePath(p) == IF HasSuffix(p, << "/" >>) THEN p ELSE p \o << "/" >>

\* "Basic " + base64(username ":" password)
BasicHeader(username, password) ==
  sBasic \o EncodeToString(username \o << ":" >> \o password)

AuthHeader_BasicFirst(token, username, password) ==
  IF username # <<>> /\ password # <<>> THEN Ptr(BasicHeader(username, password))
  ELSE IF token # <<>> THEN Ptr(sBearer \o token)
  ELSE Nil

\* newRawRequest, lines 227-236: the Authorization header set from the
\* client's fields.
AuthHeader(token, username, password) ==
  IF token # <<>> THEN Ptr(sBearer \o token)
  ELSE IF username # <<>> /\ password # <<>> THEN Ptr(BasicHeader(username, password))
  ELSE Nil

\* withEndpoint: the endpoint loses one leading slash, is split into path
\* and query at the first "?", and its path is resolved against the base.
withEndpoint(basePath, endpoint) ==
  LET rel == TrimPrefix(endpoint, << "/" >>)
      q == IndexChar(rel, "?")
      relPath == IF q = 0 THEN rel ELSE SubSeq(rel, 1, q - 1)
      query == IF q = 0 THEN <<>> ELSE SubSeq(rel, q + 1, Len(rel))
  IN [path |-> IF relPath = <<>> THEN basePath ELSE resolvePath(basePath, relPath),
      query |-> query]

\* newRawRequest / newRequest: the request that goes on the wire.
newRequest(basePath, token, username, password, method, endpoint, body) ==
  LET target == withEndpoint(basePath, endpoint)
  IN [method |-> method, path |-> target.path, query |-> target.query,
      auth |-> AuthHeader(token, username, password), body |-> body]

(***************************************************************************)
(* bunkerWebClient.do: outcome classification                              *)
(***************************************************************************)

Is2xx(code) == code >= 200 /\ code < 300

ResOk(out) == [kind |-> "ok", code |-> 0, msg |-> <<>>, out |-> out]

ResAPI(code, msg) == [kind |-> "api", code |-> code, msg |-> msg, out |-> Nil]

ResDecode == [kind |-> "decode", code |-> 0, msg |-> <<>>, out |-> Nil]

ResTransport == [kind |-> "transport", code |-> 0, msg |-> <<>>, out |-> Nil]

ResLocal == [kind |-> "local", code |-> 0, msg |-> <<>>, out |-> Nil]

\* json.Unmarshal(envelope.Data, out): a JSON object fills the destination,
\* any other value is a type error.  Unset marks an untouched destination.
Unset == [set |-> FALSE, val |-> [none |-> TRUE]]

\* do, lines 260-266: a body of length zero.
emptyBodyOutcome(resp) ==
  IF Is2xx(resp.code) THEN ResOk(Unset)
  ELSE ResAPI(resp.code, TrimSpace(resp.line))

unparsableOutcome_NoStatusLine(resp) ==
  IF Is2xx(resp.code) THEN ResDecode
  ELSE ResAPI(resp.code, TrimSpace(resp.body.raw))

unparsableOutcome_Lenient(resp) ==
  IF Is2xx(resp.code) THEN ResOk(Unset)
  ELSE LET msg == TrimSpace(resp.body.raw)
       IN ResAPI(resp.code, IF msg = <<>> THEN resp.line ELSE msg)

\* do, lines 269-279: a body json.Unmarshal rejects as an envelope.
unparsableOutcome(resp) ==
  IF Is2xx(resp.code) THEN ResDecode
  ELSE LET msg == TrimSpace(resp.body.raw)
       IN ResAPI(resp.code, IF msg = <<>> THEN resp.line ELSE msg)

envelopeSucceeded_CaseSensitive(code, status) ==
  Is2xx(code) /\ (status = sOk \/ status = sSuccess)

\* do, lines 281-282: the envelope reports success.
envelopeSucceeded(code, status) ==
  LET lowered == ToLower(status)
  IN ~(~Is2xx(code) \/ (lowered # sOk /\ lowered # sSuccess))

envelopeOutcome_DataRequired(resp, wantOut) ==
  IF ~envelopeSucceeded(resp.code, resp.body.status) THEN
    LET m1 == resp.body.message
        m2 == IF m1 = <<>> THEN TrimSpace(resp.body.raw) ELSE m1
        m3 == IF m2 = <<>> THEN resp.line ELSE m2
    IN ResAPI(resp.code, m3)
  ELSE IF ~wantOut THEN ResOk(Unset)
  ELSE IF resp.body.data.kind \in {"absent", "null"} \/ ~resp.body.data.obj THEN ResDecode
  ELSE ResOk([set |-> TRUE, val |-> resp.body.data.val])

\* do, lines 281-301: a body that decoded into an envelope.
envelopeOutcome(resp, wantOut) ==
  IF ~envelopeSucceeded(resp.code, resp.body.status) THEN
    LET m1 == resp.body.message
        m2 == IF m1 = <<>> THEN TrimSpace(resp.body.raw) ELSE m1
        m3 == IF m2 = <<>> THEN resp.line ELSE m2
    IN ResAPI(resp.code, m3)
  ELSE IF ~wantOut \/ resp.body.data.kind \in {"absent", "null"} THEN ResOk(Unset)
  ELSE IF ~resp.body.data.obj THEN ResDecode
  ELSE ResOk([set |-> TRUE, val |-> resp.body.data.val])

\* do(req, out) applied to the response the transport returned; wantOut is
\* out != nil.
do(resp, wantOut) ==
  IF resp.neterr THEN ResTransport
  ELSE IF Len(resp.body.raw) = 0 THEN emptyBodyOutcome(resp)
  ELSE IF ~resp.body.valid THEN unparsableOutcome(resp)
  ELSE envelopeOutcome(resp, wantOut)

(***************************************************************************)
(* fakeBunkerWebAPI: response writers, ping and login                      *)
(***************************************************************************)

\* http.StatusText for the status codes in use.
StatusText(code) ==
  CASE code = 200 -> << "O", "K" >>
    [] code = 201 -> << "C", "r", "e", "a", "t", "e", "d" >>
    [] code = 300 -> << "M", "u", "l", "t", "i", "p", "l", "e", " ", "C", "h", "o", "i", "c", "e", "s" >>
    [] code = 400 -> << "B", "a", "d", " ", "R", "e", "q", "u", "e", "s", "t" >>
    [] code = 401 -> << "U", "n", "a", "u", "t", "h", "o", "r", "i", "z", "e", "d" >>
    [] code = 404 -> << "N", "o", "t", " ", "F", "o", "u", "n", "d" >>
    [] code = 500 -> << "I", "n", "t", "e", "r", "n", "a", "l", " ", "S", "e", "r", "v", "e", "r", " ", "E", "r", "r", "o", "r" >>
    [] OTHER -> <<>>

\* resp.Status as net/http reports it: the code, then the reason phrase.
StatusLine(code) == Digits(code) \o << " " >> \o StatusText(code)

\* writeSuccess: 200 with {"data": payload, "status": "ok"}; rendered is the
\* payload's JSON text, payload its members.
writeSuccess(rendered, payload) ==
  Response(200, StatusLine(200),
           Body(<< "{", "\"", "d", "a", "t", "a", "\"", ":" >> \o rendered \o << ",", "\"", "s", "t", "a", "t", "u", "s", "\"", ":", "\"", "o", "k", "\"", "}", "\n" >>,
                TRUE, sOk, <<>>, ObjData(payload)))

\* writeError: the status with {"data": null, "message": m, "status": "error"}.
writeError(status, message) ==
  LET code == IF status = 0 THEN 500 ELSE status
  IN Response(code, StatusLine(code),
              Body(<< "{", "\"", "d", "a", "t", "a", "\"", ":", "n", "u", "l", "l", ",", "\"", "m", "e", "s", "s", "a", "g", "e", "\"", ":", "\"" >> \o message \o << "\"", ",", "\"", "s", "t", "a", "t", "u", "s", "\"", ":", "\"", "e", "r", "r", "o", "r", "\"", "}", "\n" >>,
                   TRUE, sError, message, NullData))

\* authCreds of newFakeBunkerWebAPI.
sAdmin == << "a", "d", "m", "i", "n" >>

sSecret == << "s", "e", "c", "r", "e", "t" >>

authCreds == [u \in {sAdmin} |-> sSecret]

\* extractCredentials: Basic credentials from the header, else the JSON body.
\* strings.SplitN(string(raw), ":", 2) of the decoded header.
splitCredentials(raw, colon) ==
  IF ~raw.ok \/ colon = 0 THEN [ok |-> FALSE, username |-> <<>>, password |-> <<>>]
  ELSE [ok |-> TRUE,
        username |-> TrimSpace(SubSeq(raw.val, 1, colon - 1)),
        password |-> TrimSpace(SubSeq(raw.val, colon + 1, Len(raw.val)))]

decodedCredentials(raw) == splitCredentials(raw, IndexChar(raw.val, ":"))

\* extractCredentials: Basic credentials from the header, else the JSON body.
extractCredentials(req, authHeader) ==
  IF HasPrefix(ToLower(authHeader), << "b", "a", "s", "i", "c", " " >>)
  THEN decodedCredentials(DecodeString(TrimSpace(SubSeq(authHeader, 7, Len(authHeader)))))
  ELSE [ok |-> TRUE,
        username |-> TrimSpace(req.body.username),
        password |-> TrimSpace(req.body.password)]

\* handleLogin
\* handleLogin, lines 218-238: the credentials checked against authCreds.
checkCredentials(creds, token) ==
  IF ~creds.ok THEN writeError(400, << "i", "n", "v", "a", "l", "i", "d", " ", "b", "a", "s", "i", "c", " ", "a", "u", "t", "h", " ", "h", "e", "a", "d", "e", "r" >>)
  ELSE IF creds.username = <<>> \/ creds.password = <<>>
  THEN writeError(400, << "u", "s", "e", "r", "n", "a", "m", "e", " ", "a", "n", "d", " ", "p", "a", "s", "s", "w", "o", "r", "d", " ", "r", "e", "q", "u", "i", "r", "e", "d" >>)
  ELSE IF creds.username \notin DOMAIN authCreds \/ authCreds[creds.username] # creds.password
  THEN writeError(401, << "i", "n", "v", "a", "l", "i", "d", " ", "c", "r", "e", "d", "e", "n", "t", "i", "a", "l", "s" >>)
  ELSE writeSuccess(<< "{", "\"", "t", "o", "k", "e", "n", "\"", ":", "\"" >> \o token \o << "\"", "}" >>, [token |-> token])

issueToken(creds) == checkCredentials(creds, << "t", "o", "k", "e", "n", "-" >> \o creds.username)

\* handleLogin
handleLogin(req) ==
  issueToken(extractCredentials(req, TrimSpace(IF req.auth.set THEN req.auth.val ELSE <<>>)))

\* handlePing: the pingPayload of newFakeBunkerWebAPI.
handlePing ==
  writeSuccess(<< "{", "\"", "n", "o", "w", "\"", ":", "\"", "2", "0", "2", "4", "-", "0", "1", "-", "0", "1", "T", "0", "0", ":", "0", "0", ":", "0", "0", "Z", "\"", ",", "\"", "p", "o", "n", "g", "\"", ":", "t", "r", "u", "e", "}" >>, [pong |-> TRUE])

(***************************************************************************)
(* fakeBunkerWebAPI: configs                                               *)
(***************************************************************************)

\* optionalStringPointer
optionalStringPointer(value) ==
  LET trimmed == TrimSpace(value)
  IN IF trimmed = <<>> THEN Nil ELSE Ptr(trimmed)

normalizeConfigService_CaseSensitive(service) ==
  IF ~service.set THEN sGlobal
  ELSE LET trimmed == TrimSpace(service.val)
       IN IF trimmed = <<>> \/ trimmed = sGlobal THEN sGlobal ELSE trimmed

\* normalizeConfigService
normalizeConfigService(service) ==
  IF ~service.set THEN sGlobal
  ELSE LET trimmed == TrimSpace(service.val)
       IN IF trimmed = <<>> \/ EqualFold(trimmed, sGlobal) THEN sGlobal ELSE trimmed

\* configStorageKey
configStorageKey(service, cfgType, name) ==
  (IF service = <<>> THEN sGlobal ELSE service) \o << "|" >> \o cfgType \o << "|" >> \o name

\* parseConfigPathParts: [ok, service, type, name]
BadPath == [ok |-> FALSE, service |-> <<>>, type |-> <<>>, name |-> <<>>]

\* parseConfigPathParts, lines 1547-1553: the normalised service with the
\* trimmed type and name, both of which must be present.
parsedParts(service, cfgType, name) ==
  IF cfgType = <<>> \/ name = <<>> THEN BadPath
  ELSE [ok |-> TRUE, service |-> service, type |-> cfgType, name |-> name]

\* parseConfigPathParts, lines 1532-1545: two parts are type and name of the
\* global scope; more are service, type and the rest as the name.
splitParts(parts) ==
  IF Len(parts) < 2 THEN BadPath
  ELSE parsedParts(
         normalizeConfigService(
           optionalStringPointer(IF Len(parts) = 2 THEN sGlobal ELSE parts[1])),
         TrimSpace(IF Len(parts) = 2 THEN parts[1] ELSE parts[2]),
         TrimSpace(IF Len(parts) = 2 THEN parts[2]
                   ELSE JoinWith(SubSeq(parts, 3, Len(parts)), << "/" >>)))

\* parseConfigPathParts: [ok, service, type, name]
parseConfigPathParts(fullPath) ==
  splitParts(Split(TrimPrefix(fullPath, << "/", "c", "o", "n", "f", "i", "g", "s", "/" >>), "/"))

\* configStorageKey of a parsed path.
parsedStorageKey(parsed) == configStorageKey(parsed.service, parsed.type, parsed.name)

\* url.Values.Get on the raw query: the value of the first key=value pair
\* with that key, empty when there is none.
RECURSIVE QueryPairs(_, _)
QueryPairs(pairs, key) ==
  IF pairs = <<>> THEN <<>>
  ELSE LET eq == IndexChar(Head(pairs), "=")
           k == IF eq = 0 THEN Head(pairs) ELSE SubSeq(Head(pairs), 1, eq - 1)
           v == IF eq = 0 THEN <<>> ELSE SubSeq(Head(pairs), eq + 1, Len(Head(pairs)))
       IN IF k = key THEN v ELSE QueryPairs(Tail(pairs), key)

QueryGet(query, key) == QueryPairs(Split(query, "&"), key)

\* json.Marshal of a bunkerWebConfig (data and method are omitempty).
RenderConfig(cfg) ==
  << "{", "\"", "s", "e", "r", "v", "i", "c", "e", "\"", ":", "\"" >> \o cfg.service \o << "\"", ",", "\"", "t", "y", "p", "e", "\"", ":", "\"" >> \o cfg.type
    \o << "\"", ",", "\"", "n", "a", "m", "e", "\"", ":", "\"" >> \o cfg.name \o << "\"" >>
    \o (IF cfg.data = <<>> THEN <<>> ELSE << ",", "\"", "d", "a", "t", "a", "\"", ":", "\"" >> \o cfg.data \o << "\"" >>)
    \o (IF cfg.method = <<>> THEN <<>> ELSE << ",", "\"", "m", "e", "t", "h", "o", "d", "\"", ":", "\"" >> \o cfg.method \o << "\"" >>)
    \o << "}" >>

\* writeSuccess(bunkerWebConfigPayload{Config: cfg})
writeConfig(cfg) ==
  writeSuccess(<< "{", "\"", "c", "o", "n", "f", "i", "g", "\"", ":" >> \o RenderConfig(cfg) \o << "}" >>, [config |-> cfg])

\* writeSuccess(struct{}{})
writeEmpty == writeSuccess(<< "{", "}" >>, [none |-> TRUE])

\* A map with one entry set or replaced.
Put(map, key, value) ==
  [k \in DOMAIN map \cup {key} |-> IF k = key THEN value ELSE map[k]]

\* A map with one entry deleted.
Drop(map, key) == [k \in DOMAIN map \ {key} |-> map[k]]

\* handleCreateConfig: [resp, configs]
handleCreateConfig(req, cfgs) ==
  IF TrimSpace(req.body.type) = <<>> \/ TrimSpace(req.body.name) = <<>>
  THEN [resp |-> writeError(400, << "t", "y", "p", "e", " ", "a", "n", "d", " ", "n", "a", "m", "e", " ", "r", "e", "q", "u", "i", "r", "e", "d" >>), configs |-> cfgs]
  ELSE LET service == normalizeConfigService(req.body.service)
           key == configStorageKey(service, req.body.type, req.body.name)
           cfg == [service |-> service, type |-> req.body.type, name |-> req.body.name,
                   data |-> req.body.data, method |-> << "a", "p", "i" >>]
       IN [resp |-> writeConfig(cfg), configs |-> Put(cfgs, key, cfg)]

\* handleGetConfig: [resp, configs]
\* handleGetConfig, lines 808-823: the stored config, its data only on
\* with_data=true.
getStoredConfig(key, req, cfgs) ==
  IF key \notin DOMAIN cfgs
  THEN [resp |-> writeError(404, << "c", "o", "n", "f", "i", "g", " ", "n", "o", "t", " ", "f", "o", "u", "n", "d" >>), configs |-> cfgs]
  ELSE [resp |-> writeConfig(IF QueryGet(req.query, sWithData) = sTrue THEN cfgs[key]
                             ELSE [cfgs[key] EXCEPT !.data = <<>>]),
        configs |-> cfgs]

getParsedConfig(parsed, req, cfgs) ==
  IF ~parsed.ok THEN [resp |-> writeError(400, << "i", "n", "v", "a", "l", "i", "d", " ", "p", "a", "t", "h" >>), configs |-> cfgs]
  ELSE getStoredConfig(parsedStorageKey(parsed), req, cfgs)

\* handleGetConfig: [resp, configs]
handleGetConfig(req, cfgs) == getParsedConfig(parseConfigPathParts(req.path), req, cfgs)

\* handleUpdateConfig: [resp, configs]
\* handleUpdateConfig, lines 869-878: the config, moved to its new key when
\* service, type or name changed.
storeUpdated(parsed, key, cfgs, data, newService, newType, newName) ==
  IF newService # parsed.service \/ newType # parsed.type \/ newName # parsed.name
  THEN [resp |-> writeConfig([service |-> newService, type |-> newType, name |-> newName,
                              data |-> data, method |-> cfgs[key].method]),
        configs |-> Put(Drop(cfgs, key), configStorageKey(newService, newType, newName),
                        [service |-> newService, type |-> newType, name |-> newName,
                         data |-> data, method |-> cfgs[key].method])]
  ELSE [resp |-> writeConfig([cfgs[key] EXCEPT !.data = data]),
        configs |-> Put(cfgs, key, [cfgs[key] EXCEPT !.data = data])]

\* handleUpdateConfig, lines 842-867: the members the request sets.
updateStoredConfig(parsed, key, req, cfgs) ==
  IF key \notin DOMAIN cfgs
  THEN [resp |-> writeError(404, << "c", "o", "n", "f", "i", "g", " ", "n", "o", "t", " ", "f", "o", "u", "n", "d" >>), configs |-> cfgs]
  ELSE storeUpdated(parsed, key, cfgs,
         IF req.body.data.set THEN req.body.data.val ELSE cfgs[key].data,
         IF req.body.service.set THEN normalizeConfigService(req.body.service)
         ELSE parsed.service,
         IF req.body.type.set /\ TrimSpace(req.body.type.val) # <<>>
         THEN TrimSpace(req.body.type.val) ELSE parsed.type,
         IF req.body.name.set /\ TrimSpace(req.body.name.val) # <<>>
         THEN TrimSpace(req.body.name.val) ELSE parsed.name)

updateParsedConfig(parsed, req, cfgs) ==
  IF ~parsed.ok THEN [resp |-> writeError(400, << "i", "n", "v", "a", "l", "i", "d", " ", "p", "a", "t", "h" >>), configs |-> cfgs]
  ELSE updateStoredConfig(parsed, parsedStorageKey(parsed), req, cfgs)

\* handleUpdateConfig: [resp, configs]
handleUpdateConfig(req, cfgs) == updateParsedConfig(parseConfigPathParts(req.path), req, cfgs)

\* handleDeleteConfig: [resp, configs]
deleteParsedConfig(parsed, cfgs) ==
  IF ~parsed.ok THEN [resp |-> writeError(400, << "i", "n", "v", "a", "l", "i", "d", " ", "p", "a", "t", "h" >>), configs |-> cfgs]
  ELSE [resp |-> writeEmpty, configs |-> Drop(cfgs, parsedStorageKey(parsed))]

\* handleDeleteConfig: [resp, configs]
handleDeleteConfig(req, cfgs) == deleteParsedConfig(parseConfigPathParts(req.path), cfgs)

\* enumerateConfigKeys followed by the loop of handleDeleteConfigs: the
\* storage keys the batch deletes, keys without a type or a name skipped.
RECURSIVE batchStorageKeys(_)
batchStorageKeys(keys) ==
  IF keys = <<>> THEN {}
  ELSE LET key == Head(keys)
           listed == IF key.service.set THEN normalizeConfigService(key.service) ELSE sGlobal
           service == normalizeConfigService(IF listed # sGlobal THEN Ptr(listed) ELSE Nil)
       IN (IF key.name = <<>> \/ key.type = <<>> THEN {}
           ELSE {configStorageKey(service, key.type, key.name)})
          \cup batchStorageKeys(Tail(keys))

\* handleDeleteConfigs: [resp, configs]
handleDeleteConfigs(req, cfgs) ==
  IF Len(req.body.configs) = 0
  THEN [resp |-> writeError(400, << "n", "o", " ", "c", "o", "n", "f", "i", "g", "s", " ", "p", "r", "o", "v", "i", "d", "e", "d" >>), configs |-> cfgs]
  ELSE [resp |-> writeEmpty,
        configs |-> [k \in DOMAIN cfgs \ batchStorageKeys(req.body.configs) |-> cfgs[k]]]

(***************************************************************************)
(* fakeBunkerWebAPI: bans and instances                                    *)
(***************************************************************************)

\* normalizeBanService without the case-insensitive "global" alias.
normalizeBanService_NoAlias(service) ==
  IF ~service.set THEN <<>> ELSE TrimSpace(service.val)

\* normalizeBanService
normalizeBanService(service) ==
  IF ~service.set THEN <<>>
  ELSE LET trimmed == TrimSpace(service.val)
       IN IF EqualFold(trimmed, sGlobal) THEN <<>> ELSE trimmed

banStorageKey_IPOnly(ip, service) == ip

\* banStorageKey
banStorageKey(ip, service) ==
  IF ~service.set THEN ip ELSE ip \o << "|" >> \o service.val

\* The loop of handleCreateBan: requests are applied in order, a request
\* without an IP is skipped.
RECURSIVE applyBans(_, _)
applyBans(reqs, bns) ==
  IF reqs = <<>> THEN bns
  ELSE LET req == Head(reqs)
           ip == TrimSpace(req.ip)
           reason == IF req.reason.set /\ TrimSpace(req.reason.val) # <<>>
                     THEN TrimSpace(req.reason.val) ELSE << "a", "p", "i" >>
           exp == IF req.exp.set THEN req.exp.val ELSE 0
           service == normalizeBanService(req.service)
           ban == [ip |-> ip, reason |-> reason, exp |-> exp,
                   service |-> IF service = <<>> THEN Nil ELSE Ptr(service)]
       IN IF ip = <<>> THEN applyBans(Tail(reqs), bns)
          ELSE applyBans(Tail(reqs),
                         Put(bns, banStorageKey(ip, optionalStringPointer(service)), ban))

\* handleCreateBan: [resp, bans]
handleCreateBan(req, bns) ==
  IF Len(req.body) = 0
  THEN [resp |-> writeError(400, << "n", "o", " ", "b", "a", "n", " ", "r", "e", "q", "u", "e", "s", "t", "s", " ", "p", "r", "o", "v", "i", "d", "e", "d" >>), bans |-> bns]
  ELSE [resp |-> writeEmpty, bans |-> applyBans(req.body, bns)]

\* The storage keys the loop of processUnbanRequests deletes.
RECURSIVE unbanStorageKeys(_)
unbanStorageKeys(reqs) ==
  IF reqs = <<>> THEN {}
  ELSE LET ip == TrimSpace(Head(reqs).ip)
           service == normalizeBanService(Head(reqs).service)
       IN (IF ip = <<>> THEN {} ELSE {banStorageKey(ip, optionalStringPointer(service))})
          \cup unbanStorageKeys(Tail(reqs))

\* handlePostUnban / handleDeleteBan with processUnbanRequests: [resp, bans]
handlePostUnban(req, bns) ==
  [resp |-> writeEmpty,
   bans |-> [k \in DOMAIN bns \ unbanStorageKeys(req.body) |-> bns[k]]]

\* handleCreateInstance: [resp, instances].  An instance is held by its
\* hostname; its optional members are copied from the request.
handleCreateInstance(req, insts) ==
  IF TrimSpace(req.body.hostname) = <<>>
  THEN [resp |-> writeError(400, << "h", "o", "s", "t", "n", "a", "m", "e", " ", "r", "e", "q", "u", "i", "r", "e", "d" >>), instances |-> insts]
  ELSE [resp |-> writeSuccess(<< "{", "\"", "i", "n", "s", "t", "a", "n", "c", "e", "\"", ":", "{", "\"", "h", "o", "s", "t", "n", "a", "m", "e", "\"", ":", "\"" >> \o req.body.hostname \o << "\"", "}", "}" >>,
                              [instance |-> req.body]),
        instances |-> Put(insts, req.body.hostname, req.body)]

\* handleDeleteInstances: [resp, instances]
handleDeleteInstances(req, insts) ==
  IF Len(req.body.instances) = 0
  THEN [resp |-> writeError(400, << "n", "o", " ", "i", "n", "s", "t", "a", "n", "c", "e", "s", " ", "p", "r", "o", "v", "i", "d", "e", "d" >>), instances |-> insts]
  ELSE LET gone == { TrimSpace(req.body.instances[i]) : i \in 1..Len(req.body.instances) }
       IN [resp |-> writeEmpty,
           instances |-> [h \in DOMAIN insts \ gone |-> insts[h]]]

(***************************************************************************)
(* Config upload-update                                                    *)
(***************************************************************************)

\* strings.TrimRight(s, "/") as path.Base applies it.
RECURSIVE TrimSlashes(_)
TrimSlashes(s) ==
  IF s # <<>> /\ s[Len(s)] = "/" THEN TrimSlashes(SubSeq(s, 1, Len(s) - 1)) ELSE s

\* path.Base
Base(s) ==
  IF s = <<>> THEN << "." >>
  ELSE IF TrimSlashes(s) = <<>> THEN << "/" >>
  ELSE SubSeq(TrimSlashes(s), LastIndexChar(TrimSlashes(s), "/") + 1, Len(TrimSlashes(s)))

\* sanitizeConfigFileName
sanitizeConfigFileName(raw) ==
  IF Base(raw) = << "." >> \/ Base(raw) = << "/" >> THEN << "c", "o", "n", "f", "i", "g" >> ELSE Base(raw)

\* http.Request.FormValue on the multipart form: the field's value, empty
\* when the field was not written.
FormValue(field) == IF field.set THEN field.val ELSE <<>>

\* handleUploadConfigUpdate, lines 1020-1041: the config (a fresh one when
\* nothing is stored under the original key) is rewritten with the new
\* identity and the uploaded content, stored under the new key, and the
\* original key is deleted when it differs.
storeUploaded(originalKey, newKey, cfg, cfgs) ==
  [resp |-> writeConfig(cfg),
   configs |-> IF newKey # originalKey THEN Drop(Put(cfgs, newKey, cfg), originalKey)
               ELSE Put(cfgs, newKey, cfg)]

\* handleUploadConfigUpdate, lines 1009-1022: new_service goes through
\* normalizeConfigService, which never yields the empty string.
relocateUploaded(parsed, content, cfgs, newService, newType, newName) ==
  storeUploaded(parsedStorageKey(parsed),
                configStorageKey(IF newService = <<>> THEN parsed.service ELSE newService,
                                 IF newType = <<>> THEN parsed.type ELSE newType,
                                 sanitizeConfigFileName(IF newName = <<>> THEN parsed.name
                                                        ELSE newName)),
                [service |-> IF newService = <<>> THEN parsed.service ELSE newService,
                 type |-> IF newType = <<>> THEN parsed.type ELSE newType,
                 name |-> sanitizeConfigFileName(IF newName = <<>> THEN parsed.name
                                                 ELSE newName),
                 data |-> content,
                 method |-> IF parsedStorageKey(parsed) \in DOMAIN cfgs
                            THEN cfgs[parsedStorageKey(parsed)].method ELSE << "a", "p", "i" >>],
                cfgs)

uploadParsedConfig(parsed, req, cfgs) ==
  IF ~parsed.ok THEN [resp |-> writeError(400, << "i", "n", "v", "a", "l", "i", "d", " ", "p", "a", "t", "h" >>), configs |-> cfgs]
  ELSE IF Len(req.body.files) = 0
       THEN [resp |-> writeError(400, << "m", "i", "s", "s", "i", "n", "g", " ", "f", "i", "l", "e", " ", "p", "a", "r", "t" >>), configs |-> cfgs]
  ELSE relocateUploaded(parsed, req.body.files[1].content, cfgs,
         normalizeConfigService(optionalStringPointer(FormValue(req.body.new_service))),
         TrimSpace(FormValue(req.body.new_type)),
         TrimSpace(FormValue(req.body.new_name)))

\* handleUploadConfigUpdate: [resp, configs]
handleUploadConfigUpdate(req, cfgs) ==
  uploadParsedConfig(parseConfigPathParts(TrimSuffix(req.path, << "/", "u", "p", "l", "o", "a", "d" >>)), req, cfgs)

(***************************************************************************)
(* fakeBunkerWebAPI: instance actions                                      *)
(***************************************************************************)

\* strings.Trim(s, "/")
RECURSIVE TrimLeadingSlashes(_)
TrimLeadingSlashes(s) ==
  IF s # <<>> /\ s[1] = "/" THEN TrimLeadingSlashes(Tail(s)) ELSE s

\* The hostname a per-host handler takes from the path: the prefix
\* /instances/ and the action's suffix removed, then slashes trimmed.
pathHostname(path, suffix) ==
  TrimLeadingSlashes(TrimSlashes(TrimSuffix(TrimPrefix(path, << "/", "i", "n", "s", "t", "a", "n", "c", "e", "s", "/" >>), suffix)))

\* strconv.ParseBool, with the fallback the handlers keep on an error.
ParseBool(raw, fallback) ==
  IF raw \in { << "1" >>, << "t" >>, << "T" >>, << "T", "R", "U", "E" >>, << "t", "r", "u", "e" >>, << "T", "r", "u", "e" >> } THEN TRUE
  ELSE IF raw \in { << "0" >>, << "f" >>, << "F" >>, << "F", "A", "L", "S", "E" >>, << "f", "a", "l", "s", "e" >>, << "F", "a", "l", "s", "e" >> } THEN FALSE
  ELSE fallback

\* testFlag of handleReloadInstances and handleReloadInstance.
testFlag(req) ==
  IF QueryGet(req.query, << "t", "e", "s", "t" >>) = <<>> THEN TRUE
  ELSE ParseBool(QueryGet(req.query, << "t", "e", "s", "t" >>), TRUE)

RenderBool(b) == IF b THEN sTrue ELSE << "f", "a", "l", "s", "e" >>

instanceNotFound == writeError(404, << "i", "n", "s", "t", "a", "n", "c", "e", " ", "n", "o", "t", " ", "f", "o", "u", "n", "d" >>)

\* json.Marshal of bunkerWebInstancePayload for an instance with a hostname.
writeInstance(inst) ==
  writeSuccess(<< "{", "\"", "i", "n", "s", "t", "a", "n", "c", "e", "\"", ":", "{", "\"", "h", "o", "s", "t", "n", "a", "m", "e", "\"", ":", "\"" >> \o inst.hostname \o << "\"", "}", "}" >>,
               [instance |-> inst])

\* strconv.Itoa of a natural number.
RECURSIVE Decimal(_)
Decimal(n) ==
  IF n < 10 THEN << Chr(48 + n) >> ELSE Decimal(n \div 10) \o << Chr(48 + (n % 10)) >>

\* handlePingInstances.  The payload's running count of collection pings is
\* left out; pinged is the number of instances.
handlePingInstances(insts) ==
  writeSuccess(<< "{", "\"", "p", "i", "n", "g", "e", "d", "\"", ":" >> \o Decimal(Cardinality(DOMAIN insts)) \o << "}" >>,
               [pinged |-> Cardinality(DOMAIN insts)])

\* handlePingInstance
handlePingInstance(req, insts) ==
  IF pathHostname(req.path, << "/", "p", "i", "n", "g" >>) \notin DOMAIN insts THEN instanceNotFound
  ELSE writeSuccess(<< "{", "\"", "h", "o", "s", "t", "\"", ":", "\"" >> \o pathHostname(req.path, << "/", "p", "i", "n", "g" >>)
                      \o << "\"", ",", "\"", "p", "o", "n", "g", "\"", ":", "t", "r", "u", "e", "}" >>,
                    [host |-> pathHostname(req.path, << "/", "p", "i", "n", "g" >>), pong |-> TRUE])

\* handleReloadInstances
handleReloadInstances(req) ==
  writeSuccess(<< "{", "\"", "r", "e", "l", "o", "a", "d", "\"", ":", "\"", "a", "l", "l", "\"", ",", "\"", "t", "e", "s", "t", "\"", ":" >> \o RenderBool(testFlag(req)) \o << "}" >>,
               [reload |-> << "a", "l", "l" >>, test |-> testFlag(req)])

\* handleReloadInstance
handleReloadInstance(req, insts) ==
  IF pathHostname(req.path, << "/", "r", "e", "l", "o", "a", "d" >>) \notin DOMAIN insts THEN instanceNotFound
  ELSE writeSuccess(<< "{", "\"", "h", "o", "s", "t", "\"", ":", "\"" >> \o pathHostname(req.path, << "/", "r", "e", "l", "o", "a", "d" >>)
                      \o << "\"", ",", "\"", "t", "e", "s", "t", "\"", ":" >> \o RenderBool(testFlag(req)) \o << "}" >>,
                    [host |-> pathHostname(req.path, << "/", "r", "e", "l", "o", "a", "d" >>), test |-> testFlag(req)])

\* handleStopInstances
handleStopInstances == writeSuccess(<< "{", "\"", "s", "t", "o", "p", "p", "e", "d", "\"", ":", "\"", "a", "l", "l", "\"", "}" >>, [stopped |-> << "a", "l", "l" >>])

\* handleStopInstance
handleStopInstance(req, insts) ==
  IF pathHostname(req.path, << "/", "s", "t", "o", "p" >>) \notin DOMAIN insts THEN instanceNotFound
  ELSE writeInstance(insts[pathHostname(req.path, << "/", "s", "t", "o", "p" >>)])

\* handleGetInstance
handleGetInstance(req, insts) ==
  IF pathHostname(req.path, <<>>) \notin DOMAIN insts THEN instanceNotFound
  ELSE writeInstance(insts[pathHostname(req.path, <<>>)])

\* handleDeleteInstance: [resp, instances]
handleDeleteInstance(req, insts) ==
  [resp |-> writeEmpty,
   instances |-> [h \in DOMAIN insts \ { pathHostname(req.path, <<>>) } |-> insts[h]]]

\* routeInstanceGet
routeInstanceGet(req, insts) ==
  IF HasSuffix(req.path, << "/", "p", "i", "n", "g" >>) THEN handlePingInstance(req, insts)
  ELSE IF HasSuffix(req.path, << "/", "r", "e", "l", "o", "a", "d" >>) THEN handleReloadInstance(req, insts)
  ELSE IF HasSuffix(req.path, << "/", "s", "t", "o", "p" >>) THEN handleStopInstance(req, insts)
  ELSE handleGetInstance(req, insts)

\* routeInstancePost
routeInstancePost(req, insts) ==
  IF HasSuffix(req.path, << "/", "r", "e", "l", "o", "a", "d" >>) THEN handleReloadInstance(req, insts)
  ELSE IF HasSuffix(req.path, << "/", "s", "t", "o", "p" >>) THEN handleStopInstance(req, insts)
  ELSE writeError(404, << "n", "o", "t", " ", "f", "o", "u", "n", "d" >>)

(***************************************************************************)
(* fakeBunkerWebAPI: the global configuration                              *)
(***************************************************************************)

sGlobalConfig == << "g", "l", "o", "b", "a", "l", "_", "c", "o", "n", "f", "i", "g" >>

sSomeSetting == << "s", "o", "m", "e", "_", "s", "e", "t", "t", "i", "n", "g" >>

sFeatureEnabled == << "f", "e", "a", "t", "u", "r", "e", "_", "e", "n", "a", "b", "l", "e", "d" >>

sRetryLimit == << "r", "e", "t", "r", "y", "_", "l", "i", "m", "i", "t" >>

sMethods == << "_", "_", "m", "e", "t", "h", "o", "d", "s", "_", "_" >>

\* newFakeBunkerWebAPI: the settings a fresh control plane holds.  A setting's
\* value is its JSON text.
InitialGlobalConfig ==
  [k \in { sSomeSetting, sFeatureEnabled, sRetryLimit } |->
     CASE k = sSomeSetting -> << "\"", "v", "a", "l", "u", "e", "\"" >>
       [] k = sFeatureEnabled -> << "t", "r", "u", "e" >>
       [] OTHER -> << "5" >>]

\* The setting keys in use, in the order json.Marshal writes map keys.
SettingKeyOrder == << sMethods, << "e", "x", "t", "r", "a" >>, sFeatureEnabled, sRetryLimit, sSomeSetting >>

\* json.Marshal of a map of settings.
RECURSIVE RenderMembers(_, _)
RenderMembers(keys, settings) ==
  IF keys = <<>> THEN <<>>
  ELSE IF Head(keys) \notin DOMAIN settings THEN RenderMembers(Tail(keys), settings)
  ELSE << << "\"" >> \o Head(keys) \o << "\"", ":" >> \o settings[Head(keys)] >>
         \o RenderMembers(Tail(keys), settings)

RenderSettings(settings) ==
  << "{" >> \o JoinWith(RenderMembers(SettingKeyOrder, settings), << "," >>) \o << "}" >>

\* handleGetGlobalConfig: [resp, globalConfig]
handleGetGlobalConfig(req, settings) ==
  [resp |-> IF QueryGet(req.query, << "m", "e", "t", "h", "o", "d", "s" >>) = sTrue
            THEN writeSuccess(RenderSettings(Put(settings, sMethods, << "{", "\"", "e", "x", "a", "m", "p", "l", "e", "\"", ":", "\"", "p", "a", "t", "c", "h", "\"", "}" >>)),
                              Put(settings, sMethods, << "{", "\"", "e", "x", "a", "m", "p", "l", "e", "\"", ":", "\"", "p", "a", "t", "c", "h", "\"", "}" >>))
            ELSE writeSuccess(RenderSettings(settings), settings),
   globalConfig |-> settings]

patchedSettings_SetNull(payload, settings) ==
  [k \in DOMAIN settings \cup DOMAIN payload |->
     IF k \in DOMAIN payload
     THEN (IF payload[k].set THEN payload[k].val ELSE << "n", "u", "l", "l" >>)
     ELSE settings[k]]

\* handlePatchGlobalConfig, lines 736-742: a key whose value is null is
\* deleted, any other key is set to its value.  The payload maps a key to
\* its value, the unset value being JSON null.
patchedSettings(payload, settings) ==
  [k \in (DOMAIN settings \cup DOMAIN payload) \ { j \in DOMAIN payload : ~payload[j].set } |->
     IF k \in DOMAIN payload THEN payload[k].val ELSE settings[k]]

\* handlePatchGlobalConfig: [resp, globalConfig]
handlePatchGlobalConfig(req, settings) ==
  IF DOMAIN req.body = {}
  THEN [resp |-> writeError(400, << "n", "o", " ", "s", "e", "t", "t", "i", "n", "g", "s", " ", "p", "r", "o", "v", "i", "d", "e", "d" >>),
        globalConfig |-> settings]
  ELSE [resp |-> writeSuccess(RenderSettings(patchedSettings(req.body, settings)),
                              patchedSettings(req.body, settings)),
        globalConfig |-> patchedSettings(req.body, settings)]

\* What the handlers append to pingHosts, reloadHostCalls and stopHosts,
\* and count in pingAllCount, reloadAllTests and stopAllCount, for one
\* request: the action, whether it addressed the collection, the host and
\* the test flag.
Action(op, all, host, test) == [op |-> op, all |-> all, host |-> host, test |-> test]

hostAction(op, host, test, insts) ==
  IF host \in DOMAIN insts THEN << Action(op, FALSE, host, test) >> ELSE <<>>

recorded(req, insts) ==
  CASE req.method = "GET" /\ req.path = << "/", "i", "n", "s", "t", "a", "n", "c", "e", "s", "/", "p", "i", "n", "g" >> ->
         << Action(<< "p", "i", "n", "g" >>, TRUE, <<>>, TRUE) >>
    [] req.method = "POST" /\ req.path = << "/", "i", "n", "s", "t", "a", "n", "c", "e", "s", "/", "r", "e", "l", "o", "a", "d" >> ->
         << Action(<< "r", "e", "l", "o", "a", "d" >>, TRUE, <<>>, testFlag(req)) >>
    [] req.method = "POST" /\ req.path = << "/", "i", "n", "s", "t", "a", "n", "c", "e", "s", "/", "s", "t", "o", "p" >> ->
         << Action(<< "s", "t", "o", "p" >>, TRUE, <<>>, TRUE) >>
    [] req.method = "GET" /\ HasPrefix(req.path, << "/", "i", "n", "s", "t", "a", "n", "c", "e", "s", "/" >>)
         /\ HasSuffix(req.path, << "/", "p", "i", "n", "g" >>) ->
         hostAction(<< "p", "i", "n", "g" >>, pathHostname(req.path, << "/", "p", "i", "n", "g" >>), TRUE, insts)
    [] req.method \in { "GET", "POST" } /\ HasPrefix(req.path, << "/", "i", "n", "s", "t", "a", "n", "c", "e", "s", "/" >>)
         /\ HasSuffix(req.path, << "/", "r", "e", "l", "o", "a", "d" >>) ->
         hostAction(<< "r", "e", "l", "o", "a", "d" >>, pathHostname(req.path, << "/", "r", "e", "l", "o", "a", "d" >>), testFlag(req), insts)
    [] req.method \in { "GET", "POST" } /\ HasPrefix(req.path, << "/", "i", "n", "s", "t", "a", "n", "c", "e", "s", "/" >>)
         /\ HasSuffix(req.path, << "/", "s", "t", "o", "p" >>) ->
         hostAction(<< "s", "t", "o", "p" >>, pathHostname(req.path, << "/", "s", "t", "o", "p" >>), TRUE, insts)
    [] OTHER -> <<>>

\* handle: the router.  Yields the response and the control plane's state
\* after the request.
handle(req, cfgs, bns, insts) ==
  LET same(resp) == [resp |-> resp, configs |-> cfgs, bans |-> bns, instances |-> insts]
      withConfigs(r) ==
        [resp |-> r.resp, configs |-> r.configs, bans |-> bns, instances |-> insts]
      withBans(r) ==
        [resp |-> r.resp, configs |-> cfgs, bans |-> r.bans, instances |-> insts]
      withInstances(r) ==
        [resp |-> r.resp, configs |-> cfgs, bans |-> bns, instances |-> r.instances]
      underConfigs == HasPrefix(req.path, << "/", "c", "o", "n", "f", "i", "g", "s", "/" >>)
  IN CASE req.method = "GET" /\ req.path = << "/", "p", "i", "n", "g" >> -> same(handlePing)
       [] req.method = "POST" /\ req.path = << "/", "a", "u", "t", "h" >> -> same(handleLogin(req))
       [] req.method = "POST" /\ req.path = << "/", "i", "n", "s", "t", "a", "n", "c", "e", "s" >> ->
            withInstances(handleCreateInstance(req, insts))
       [] req.method = "DELETE" /\ req.path = << "/", "i", "n", "s", "t", "a", "n", "c", "e", "s" >> ->
            withInstances(handleDeleteInstances(req, insts))
       [] req.method = "GET" /\ req.path = << "/", "i", "n", "s", "t", "a", "n", "c", "e", "s", "/", "p", "i", "n", "g" >> -> same(handlePingInstances(insts))
       [] req.method = "POST" /\ req.path = << "/", "i", "n", "s", "t", "a", "n", "c", "e", "s", "/", "r", "e", "l", "o", "a", "d" >> -> same(handleReloadInstances(req))
       [] req.method = "POST" /\ req.path = << "/", "i", "n", "s", "t", "a", "n", "c", "e", "s", "/", "s", "t", "o", "p" >> -> same(handleStopInstances)
       [] req.method = "GET" /\ HasPrefix(req.path, << "/", "i", "n", "s", "t", "a", "n", "c", "e", "s", "/" >>) -> same(routeInstanceGet(req, insts))
       [] req.method = "POST" /\ HasPrefix(req.path, << "/", "i", "n", "s", "t", "a", "n", "c", "e", "s", "/" >>) -> same(routeInstancePost(req, insts))
       [] req.method = "DELETE" /\ HasPrefix(req.path, << "/", "i", "n", "s", "t", "a", "n", "c", "e", "s", "/" >>) ->
            withInstances(handleDeleteInstance(req, insts))
       [] req.method = "POST" /\ req.path = << "/", "c", "o", "n", "f", "i", "g", "s" >> ->
            withConfigs(handleCreateConfig(req, cfgs))
       [] req.method = "DELETE" /\ req.path = << "/", "c", "o", "n", "f", "i", "g", "s" >> ->
            withConfigs(handleDeleteConfigs(req, cfgs))
       [] underConfigs /\ HasSuffix(req.path, << "/", "u", "p", "l", "o", "a", "d" >>)
            /\ req.method = "PATCH" -> withConfigs(handleUploadConfigUpdate(req, cfgs))
       [] underConfigs /\ req.method = "GET" -> withConfigs(handleGetConfig(req, cfgs))
       [] underConfigs /\ req.method = "PATCH" -> withConfigs(handleUpdateConfig(req, cfgs))
       [] underConfigs /\ req.method = "DELETE" -> withConfigs(handleDeleteConfig(req, cfgs))
       [] req.method = "POST" /\ req.path \in { << "/", "b", "a", "n", "s" >>, << "/", "b", "a", "n", "s", "/", "b", "a", "n" >> } ->
            withBans(handleCreateBan(req, bns))
       [] req.method = "POST" /\ req.path = << "/", "b", "a", "n", "s", "/", "u", "n", "b", "a", "n" >> ->
            withBans(handlePostUnban(req, bns))
       [] req.method = "DELETE" /\ req.path = << "/", "b", "a", "n", "s" >> ->
            withBans(handlePostUnban(req, bns))
       [] OTHER -> same(writeError(404, << "n", "o", "t", " ", "f", "o", "u", "n", "d" >>))

(***************************************************************************)
(* Responses of an arbitrary server                                        *)
(***************************************************************************)

\* Documents a server may send as a body, each with its decoding.
DocEmpty == Body(<<>>, FALSE, <<>>, <<>>, NoData)

DocBlank == Body(<< " ", "\n" >>, FALSE, <<>>, <<>>, NoData)

DocText == Body(<< " ", "u", "p", "s", "t", "r", "e", "a", "m", " ", "d", "o", "w", "n", "\n" >>, FALSE, <<>>, <<>>, NoData)

DocArray == Body(<< "[", "]" >>, FALSE, <<>>, <<>>, NoData)

DocBadStatus == Body(<< "{", "\"", "s", "t", "a", "t", "u", "s", "\"", ":", "1", "}" >>, FALSE, <<>>, <<>>, NoData)

DocNull == Body(<< "n", "u", "l", "l" >>, TRUE, <<>>, <<>>, NoData)

DocEmptyObject == Body(<< "{", "}" >>, TRUE, <<>>, <<>>, NoData)

DocOk == Body(<< "{", "\"", "s", "t", "a", "t", "u", "s", "\"", ":", "\"", "o", "k", "\"", "}" >>, TRUE, << "o", "k" >>, <<>>, NoData)

DocOkUpperNull == Body(<< "{", "\"", "s", "t", "a", "t", "u", "s", "\"", ":", "\"", "O", "K", "\"", ",", "\"", "d", "a", "t", "a", "\"", ":", "n", "u", "l", "l", "}" >>, TRUE, << "O", "K" >>, <<>>, NullData)

DocSuccessToken ==
  Body(<< "{", "\"", "s", "t", "a", "t", "u", "s", "\"", ":", "\"", "S", "u", "c", "c", "e", "s", "s", "\"", ",", "\"", "d", "a", "t", "a", "\"", ":", "{", "\"", "t", "o", "k", "e", "n", "\"", ":", "\"", "t", "1", "\"", "}", "}" >>, TRUE, << "S", "u", "c", "c", "e", "s", "s" >>, <<>>,
       ObjData([token |-> << "t", "1" >>]))

DocOkScalar == Body(<< "{", "\"", "s", "t", "a", "t", "u", "s", "\"", ":", "\"", "o", "k", "\"", ",", "\"", "d", "a", "t", "a", "\"", ":", "\"", "x", "\"", "}" >>, TRUE, << "o", "k" >>, <<>>, ScalarData)

DocOkay == Body(<< "{", "\"", "s", "t", "a", "t", "u", "s", "\"", ":", "\"", "o", "k", "a", "y", "\"", ",", "\"", "d", "a", "t", "a", "\"", ":", "{", "}", "}" >>, TRUE, << "o", "k", "a", "y" >>, <<>>, ObjData([none |-> TRUE]))

DocError ==
  Body(<< "{", "\"", "s", "t", "a", "t", "u", "s", "\"", ":", "\"", "e", "r", "r", "o", "r", "\"", ",", "\"", "m", "e", "s", "s", "a", "g", "e", "\"", ":", "\"", "d", "e", "n", "i", "e", "d", "\"", "}" >>, TRUE, << "e", "r", "r", "o", "r" >>, << "d", "e", "n", "i", "e", "d" >>, NoData)

DocErrorNoMessage == Body(<< "{", "\"", "s", "t", "a", "t", "u", "s", "\"", ":", "\"", "e", "r", "r", "o", "r", "\"", "}" >>, TRUE, << "e", "r", "r", "o", "r" >>, <<>>, NoData)

Documents ==
  { DocEmpty, DocBlank, DocText, DocArray, DocBadStatus, DocNull, DocEmptyObject, DocOk,
    DocOkUpperNull, DocSuccessToken, DocOkScalar, DocOkay, DocError, DocErrorNoMessage }

\* 599 has no reason phrase: its status line is the code and a space.
StatusCodes == {200, 201, 300, 404, 599}

\* Everything the transport may hand back for one request.
RawResponses ==
  { Response(c, StatusLine(c), d) : c \in StatusCodes, d \in Documents } \cup { NetworkFailure }

(***************************************************************************)
(* State                                                                   *)
(***************************************************************************)

VARIABLES
  basePath,     \* path of bunkerWebClient.baseURL
  apiToken,     \* bunkerWebClient.apiToken
  apiUsername,  \* bunkerWebClient.apiUsername
  apiPassword,  \* bunkerWebClient.apiPassword
  configs,      \* fakeBunkerWebAPI.configs
  bans,         \* fakeBunkerWebAPI.bans
  instances,    \* fakeBunkerWebAPI.instances
  globalConfig, \* fakeBunkerWebAPI.globalConfig
  call,         \* the client method invoked last, with its arguments
  wire,         \* the requests that call put on the wire, in order
  reply,        \* the response to the last of them
  result,       \* what the call returned
  applied,      \* the instance actions the control plane recorded for that call
  tfstate,      \* the stored state of the resource under management
  diags,        \* the diagnostics of the last resource operation
  lastToken     \* history: the token the latest successful Login returned

vars ==
  << basePath, apiToken, apiUsername, apiPassword, configs, bans, instances,
     globalConfig, call, wire, reply, result, applied, tfstate, diags, lastToken >>

client == << basePath, apiToken, apiUsername, apiPassword >>

provider == << tfstate, diags >>

\* No resource in state, and a stored resource with its identity and values.
NoResource == [kind |-> "none", removed |-> TRUE, id |-> <<>>, values |-> Nil]

Stored(kind, id, values) == [kind |-> kind, removed |-> FALSE, id |-> id, values |-> values]

\* resp.Diagnostics: empty, or one error with its summary and detail.
NoDiags == [error |-> FALSE, summary |-> <<>>, detail |-> <<>>]

AddError(summary, detail) == [error |-> TRUE, summary |-> summary, detail |-> detail]

controlPlane == << configs, bans, instances, globalConfig >>

NoReply == Response(0, <<>>, DocEmpty)

EmptyMap == [k \in {} |-> TRUE]

\* What call holds of a method's invocation: its name and arguments, and
\* whether it passes a destination to do.
Called(op, args, wantOut, server) ==
  [op |-> op, args |-> args, server |-> server, wantOut |-> wantOut]

\* newBunkerWebClient(endpoint, nil, token, username, password) against a
\* freshly started control plane.
newBunkerWebClient(endpointPath, token, username, password) ==
  /\ basePath = NormalizeBasePath(endpointPath)
  /\ apiToken = token
  /\ apiUsername = username
  /\ apiPassword = password
  /\ configs = EmptyMap
  /\ bans = EmptyMap
  /\ instances = EmptyMap
  /\ globalConfig = InitialGlobalConfig
  /\ call = Called("new", <<>>, FALSE, "api")
  /\ wire = <<>>
  /\ reply = NoReply
  /\ result = ResOk(Unset)
  /\ applied = <<>>
  /\ tfstate = NoResource
  /\ diags = NoDiags
  /\ lastToken = Nil

\* One round trip: the control plane answers (server = "api"), or the
\* transport hands back resp.  Yields the response and the control plane after.
Served(exchange, log) ==
  [resp |-> exchange.resp, configs |-> exchange.configs, bans |-> exchange.bans,
   instances |-> exchange.instances, globalConfig |-> globalConfig, applied |-> log]

\* The router's two arms for /global_config, which act on globalConfig.
ServedSettings(exchange) ==
  [resp |-> exchange.resp, configs |-> configs, bans |-> bans, instances |-> instances,
   globalConfig |-> exchange.globalConfig, applied |-> <<>>]

RoundTrip(req, server, resp) ==
  IF server = "api"
  THEN IF req.path = << "/" >> \o sGlobalConfig /\ req.method \in { "GET", "PATCH" }
       THEN ServedSettings(IF req.method = "GET" THEN handleGetGlobalConfig(req, globalConfig)
                           ELSE handlePatchGlobalConfig(req, globalConfig))
       ELSE Served(handle(req, configs, bans, instances), recorded(req, instances))
  ELSE [resp |-> resp, configs |-> configs, bans |-> bans, instances |-> instances,
        globalConfig |-> globalConfig, applied |-> <<>>]

\* A call that sent req and got exchange back.
Sent(req, exchange) ==
  /\ wire' = << req >>
  /\ reply' = exchange.resp
  /\ configs' = exchange.configs
  /\ bans' = exchange.bans
  /\ instances' = exchange.instances
  /\ globalConfig' = exchange.globalConfig
  /\ applied' = exchange.applied

\* A call that failed before any request was built.
RejectedLocally ==
  /\ wire' = <<>>
  /\ reply' = NoReply
  /\ result' = ResLocal
  /\ applied' = <<>>
  /\ UNCHANGED controlPlane

Request(method, endpoint, body) ==
  newRequest(basePath, apiToken, apiUsername, apiPassword, method, endpoint, body)

NoBody == [none |-> TRUE]

(***************************************************************************)
(* bunkerWebClient: Login and the service methods                          *)
(***************************************************************************)

loginArgumentsValid_Untrimmed(username, password) ==
  username # <<>> /\ password # <<>>

\* Login, lines 1215-1220: both credentials must be non-blank.
loginArgumentsValid(username, password) ==
  ~(TrimSpace(username) = <<>>) /\ ~(TrimSpace(password) = <<>>)

loginRequest_ConfiguredAuth(built, username, password) == built

\* Login, lines 1227-1234: the request newRequest built, with its
\* Authorization header replaced by the Basic credentials of the call.
loginRequest(built, username, password) ==
  [built EXCEPT !.auth = Ptr(BasicHeader(username, password))]

\* Login(username, password)
\* Login, line 1241: the token member of the decoded payload.
payloadToken(out) == IF out.set /\ "token" \in DOMAIN out.val THEN out.val.token ELSE <<>>

storeToken_Always(res, token) ==
  /\ apiToken' = token
  /\ result' = IF res.kind = "ok" THEN ResOk(Ptr(token)) ELSE res
  /\ lastToken' = IF res.kind = "ok" THEN Ptr(token) ELSE lastToken

\* Login, lines 1236-1243: a login that succeeded stores the token.
storeToken(res, token) ==
  IF res.kind = "ok"
  THEN /\ apiToken' = token
       /\ result' = ResOk(Ptr(token))
       /\ lastToken' = Ptr(token)
  ELSE /\ result' = res
       /\ UNCHANGED << apiToken, lastToken >>

concludeLogin(res) == storeToken(res, payloadToken(res.out))

Exchange_RetryOnFailure(req, server, resp) ==
  /\ Sent(req, RoundTrip(req, server, resp))!2
  /\ Sent(req, RoundTrip(req, server, resp))!3
  /\ Sent(req, RoundTrip(req, server, resp))!4
  /\ Sent(req, RoundTrip(req, server, resp))!5
  /\ Sent(req, RoundTrip(req, server, resp))!6
  /\ Sent(req, RoundTrip(req, server, resp))!7
  /\ wire' = IF reply'.neterr \/ reply'.code >= 500 THEN << req, req >> ELSE << req >>

\* c.httpClient.Do(req): the request goes out and the response comes back.
Exchange(req, server, resp) == Sent(req, RoundTrip(req, server, resp))

\* Login(username, password)
Login(username, password, server, resp) ==
  /\ call' = Called("Login", [username |-> username, password |-> password], TRUE, server)
  /\ IF ~loginArgumentsValid(username, password)
     THEN /\ RejectedLocally
          /\ UNCHANGED << client, provider, lastToken >>
     ELSE /\ Exchange(loginRequest(Request("POST", sAuth,
                                           [username |-> username, password |-> password]),
                                   username, password),
                      server, resp)
          /\ concludeLogin(do(reply', TRUE))
          /\ UNCHANGED << basePath, apiUsername, apiPassword, provider >>

\* The common shape of a method: newRequest, then do.
Invoke(method, endpoint, body, wantOut, server, resp) ==
  /\ Exchange(Request(method, endpoint, body), server, resp)
  /\ result' = do(reply', wantOut)
  /\ UNCHANGED << client, provider, lastToken >>

\* A method that returns a validation error before building a request.
Reject ==
  /\ RejectedLocally
  /\ UNCHANGED << client, provider, lastToken >>

sServices == << "s", "e", "r", "v", "i", "c", "e", "s" >>

\* Ping()
Ping(server, resp) ==
  /\ call' = Called("Ping", <<>>, TRUE, server)
  /\ Invoke("GET", sPing, NoBody, TRUE, server, resp)

\* GetService(id)
GetService(id, resp) ==
  /\ call' = Called("GetService", [id |-> id], TRUE, "raw")
  /\ Invoke("GET", Join(<< sServices, id >>), NoBody, TRUE, "raw", resp)

\* CreateService(payload)
CreateService(resp) ==
  /\ call' = Called("CreateService", <<>>, TRUE, "raw")
  /\ Invoke("POST", sServices, NoBody, TRUE, "raw", resp)

\* UpdateService(id, payload)
UpdateService(id, resp) ==
  /\ call' = Called("UpdateService", [id |-> id], TRUE, "raw")
  /\ Invoke("PATCH", Join(<< sServices, id >>), NoBody, TRUE, "raw", resp)

\* DeleteService(id)
DeleteService(id, resp) ==
  /\ call' = Called("DeleteService", [id |-> id], FALSE, "raw")
  /\ Invoke("DELETE", Join(<< sServices, id >>), NoBody, FALSE, "raw", resp)

(***************************************************************************)
(* bunkerWebClient: configs, bans and instances                            *)
(***************************************************************************)

\* configPath
configPath(key) ==
  LET trimmed == IF key.service.set THEN TrimSpace(key.service.val) ELSE <<>>
      svc == IF trimmed # <<>> THEN trimmed ELSE sGlobal
  IN Join(<< sConfigs, svc, key.type, key.name >>)

\* The ConfigKey of a create request.
KeyOf(input) == [service |-> input.service, type |-> input.type, name |-> input.name]

\* CreateConfig(input)
CreateConfig(input) ==
  /\ call' = Called("CreateConfig", [key |-> KeyOf(input), data |-> input.data], TRUE, "api")
  /\ Invoke("POST", sConfigs, input, TRUE, "api", NoReply)

\* GetConfig(key, withData)
GetConfig(key, withData) ==
  /\ call' = Called("GetConfig", [key |-> key, withData |-> withData], TRUE, "api")
  /\ Invoke("GET",
            configPath(key) \o (IF withData
                                THEN << "?" >> \o sWithData \o << "=" >> \o sTrue
                                ELSE <<>>),
            NoBody, TRUE, "api", NoReply)

\* UpdateConfig(key, input)
UpdateConfig(key, input) ==
  /\ call' = Called("UpdateConfig", [key |-> key, input |-> input], TRUE, "api")
  /\ Invoke("PATCH", configPath(key), input, TRUE, "api", NoReply)

\* DeleteConfig(key)
DeleteConfig(key) ==
  /\ call' = Called("DeleteConfig", [key |-> key], FALSE, "api")
  /\ Invoke("DELETE", configPath(key), NoBody, FALSE, "api", NoReply)

batchAccepted_Always(batch) == TRUE

\* The guard of BanBulk, UnbanBulk, DeleteConfigs and DeleteInstances
\* (lines 767, 780, 886 and 597): the batch is not empty.
batchAccepted(batch) == ~(Len(batch) = 0)

\* DeleteConfigs(keys)
DeleteConfigs(keys) ==
  /\ call' = Called("DeleteConfigs", [batch |-> keys], FALSE, "api")
  /\ IF ~batchAccepted(keys) THEN Reject
     ELSE Invoke("DELETE", sConfigs, [configs |-> keys], FALSE, "api", NoReply)

sInstances == << "i", "n", "s", "t", "a", "n", "c", "e", "s" >>

\* CreateInstance(reqPayload)
CreateInstance(reqPayload) ==
  /\ call' = Called("CreateInstance", [hostname |-> reqPayload.hostname], TRUE, "api")
  /\ Invoke("POST", sInstances, reqPayload, TRUE, "api", NoReply)

DeleteInstances_Reversed(hostnames) ==
  /\ call' = Called("DeleteInstances", [batch |-> hostnames], FALSE, "api")
  /\ IF ~batchAccepted(hostnames) THEN Reject
     ELSE Invoke("DELETE", sInstances,
                 [instances |-> [i \in 1..Len(hostnames) |-> hostnames[Len(hostnames) + 1 - i]]],
                 FALSE, "api", NoReply)

\* DeleteInstances(hostnames)
DeleteInstances(hostnames) ==
  /\ call' = Called("DeleteInstances", [batch |-> hostnames], FALSE, "api")
  /\ IF ~batchAccepted(hostnames) THEN Reject
     ELSE Invoke("DELETE", sInstances, [instances |-> hostnames], FALSE, "api", NoReply)

\* BanBulk(reqs)
BanBulk(reqs) ==
  /\ call' = Called("BanBulk", [batch |-> reqs], FALSE, "api")
  /\ IF ~batchAccepted(reqs) THEN Reject
     ELSE Invoke("POST", << "b", "a", "n", "s", "/", "b", "a", "n" >>, reqs, FALSE,
                 "api", NoReply)

\* UnbanBulk(reqs)
UnbanBulk(reqs) ==
  /\ call' = Called("UnbanBulk", [batch |-> reqs], FALSE, "api")
  /\ IF ~batchAccepted(reqs) THEN Reject
     ELSE Invoke("POST", << "b", "a", "n", "s", "/", "u", "n", "b", "a", "n" >>, reqs,
                 FALSE, "api", NoReply)

(***************************************************************************)
(* Specifications                                                          *)
(***************************************************************************)

Tokens == { <<>>, << "t", "0" >> }

Usernames == { <<>>, << " " >>, sAdmin }

Passwords == { <<>>, sSecret, << "w", "r", "o", "n", "g" >> }

EndpointPaths == { <<>>, << "/", "a", "p", "i" >> }

ServiceIDs == { << "w", "e", "b" >> }

\* What a server may answer to a login, one response of each outcome class.
LoginResponses ==
  { Response(200, StatusLine(200), DocSuccessToken),
    Response(200, StatusLine(200), DocOkUpperNull),
    Response(200, StatusLine(200), DocOkScalar),
    Response(201, StatusLine(201), DocText),
    Response(401, StatusLine(401), DocError),
    NetworkFailure }

\* Authentication: clients of every construction mode log in and send
\* requests, to the control plane or to a server answering anything.
Init ==
  \E t \in Tokens, u \in {<<>>, sAdmin}, p \in {<<>>, sSecret} :
    newBunkerWebClient(<<>>, t, u, p)

Next ==
  \/ \E u \in Usernames, p \in Passwords, r \in LoginResponses : Login(u, p, "raw", r)
  \/ \E u \in Usernames, p \in Passwords : Login(u, p, "api", NoReply)
  \/ Ping("api", NoReply)
  \/ \E id \in ServiceIDs, r \in LoginResponses : DeleteService(id, r)

Spec == Init /\ [][Next]_vars

\* Transport: every verb against a server answering anything.
InitDo ==
  \E e \in EndpointPaths : newBunkerWebClient(e, <<>>, sAdmin, sSecret)

NextDo ==
  \/ \E id \in ServiceIDs, r \in RawResponses : GetService(id, r)
  \/ \E r \in RawResponses : CreateService(r)
  \/ \E id \in ServiceIDs, r \in RawResponses : UpdateService(id, r)
  \/ \E id \in ServiceIDs, r \in RawResponses : DeleteService(id, r)

SpecDo == InitDo /\ [][NextDo]_vars
(***************************************************************************)
(* The config resource's addressing                                        *)
(***************************************************************************)

\* normalizeTFService: a null or unknown attribute is the absent value.
normalizeTFService(v) ==
  IF ~v.set THEN sGlobal
  ELSE LET trimmed == TrimSpace(v.val)
       IN IF trimmed = <<>> THEN sGlobal ELSE trimmed

\* stringPointer
stringPointer(value) == IF EqualFold(value, sGlobal) THEN Nil ELSE Ptr(value)

\* toConfigKey, with service, type and name known.
toConfigKey(service, type, name) ==
  [service |-> stringPointer(normalizeTFService(service)), type |-> type, name |-> name]

\* The batches a caller may pass: every sequence over items of at most
\* MaxBatch entries, the empty one included.
MaxBatch == 2

Batches(items) == UNION { [1..n -> items] : n \in 0..MaxBatch }

sHttp == << "h", "t", "t", "p" >>

\* The ways to name the global scope, and one service.
GlobalVariants == { Nil, Ptr(<<>>), Ptr(sGlobal), Ptr(<< "G", "L", "O", "B", "A", "L" >>) }

ConfigServices == GlobalVariants \cup { Ptr(<< "a", "p", "p" >>) }

ConfigTypes == { sHttp }

\* A plain name, and one that holds a character with a meaning in URLs.
ConfigNames == { << "a" >>, << "a", "?", "b" >> }

ConfigData == { << "d", "1" >>, << "d", "2" >> }

ConfigKeys == [service : ConfigServices, type : ConfigTypes, name : ConfigNames]

BatchKeys ==
  { [service |-> Nil, type |-> sHttp, name |-> << "a", "?", "b" >>],
    [service |-> Ptr(<< "G", "L", "O", "B", "A", "L" >>), type |-> sHttp, name |-> << "a" >>],
    [service |-> Ptr(<< "a", "p", "p" >>), type |-> sHttp, name |-> << "a" >>] }

\* ConfigUpdateRequest{Data: &data}
DataUpdate(data) == [service |-> Nil, type |-> Nil, name |-> Nil, data |-> Ptr(data)]

\* Configs: a client without credentials, as the client tests build it,
\* creates, reads, updates and deletes configs on the control plane.
InitConfig == newBunkerWebClient(<<>>, <<>>, <<>>, <<>>)

NextConfig ==
  \/ \E k \in ConfigKeys, d \in ConfigData :
       CreateConfig([service |-> k.service, type |-> k.type, name |-> k.name, data |-> d])
  \/ \E k \in ConfigKeys, w \in BOOLEAN : GetConfig(k, w)
  \/ \E k \in ConfigKeys, d \in ConfigData : UpdateConfig(k, DataUpdate(d))
  \/ \E k \in ConfigKeys : DeleteConfig(k)
  \/ \E b \in Batches(BatchKeys) : DeleteConfigs(b)

SpecConfig == InitConfig /\ [][NextConfig]_vars

Hostnames == { << "h", "1" >>, << "h", "2" >> }

sIP == << "1", "0", ".", "0", ".", "0", ".", "1" >>

sWeb == << "w", "e", "b" >>

BanRequests ==
  { [ip |-> sIP, exp |-> Nil, reason |-> Nil, service |-> Nil],
    [ip |-> sIP, exp |-> [set |-> TRUE, val |-> 60], reason |-> Nil, service |-> Nil],
    [ip |-> sIP, exp |-> [set |-> TRUE, val |-> 3600],
     reason |-> Ptr(<< "a", "b", "u", "s", "e" >>), service |-> Ptr(sWeb)] }

UnbanRequests == { [ip |-> sIP, service |-> Nil], [ip |-> sIP, service |-> Ptr(sWeb)] }

\* Batches: the bulk methods, and the creations that give them something
\* to act on.
NextBatch ==
  \/ \E h \in Hostnames : CreateInstance([hostname |-> h])
  \/ \E b \in Batches(Hostnames) : DeleteInstances(b)
  \/ \E b \in Batches(BanRequests) : BanBulk(b)
  \/ \E b \in Batches(UnbanRequests) : UnbanBulk(b)
  \/ CreateConfig([service |-> Nil, type |-> sHttp, name |-> << "a" >>, data |-> << "d", "1" >>])
  \/ \E b \in Batches(BatchKeys) : DeleteConfigs(b)

SpecBatch == InitConfig /\ [][NextBatch]_vars

(***************************************************************************)
(* Properties                                                              *)
(***************************************************************************)

\* s and t are equal up to the case of ASCII letters, compared position by
\* position.
SameUpToCase(s, t) ==
  /\ Len(s) = Len(t)
  /\ \A i \in 1..Len(s) :
       \/ s[i] = t[i]
       \/ /\ Ord(t[i]) >= 97 /\ Ord(t[i]) <= 122
          /\ Ord(s[i]) = Ord(t[i]) - 32

\* s is empty or made of white space only.
Blank(s) == \A i \in 1..Len(s) : s[i] \in {" ", "\t", "\n"}

\* The last call put a request on the wire and the transport returned an
\* HTTP response to it.
Answered == wire # <<>> /\ ~reply.neterr

\* The response's body decoded into an envelope.
EnvelopeParsed == Answered /\ Len(reply.body.raw) > 0 /\ reply.body.valid

\* The parsed envelope says ok or success, in any letter case.
SaysOk == SameUpToCase(reply.body.status, sOk) \/ SameUpToCase(reply.body.status, sSuccess)

\* The envelope carries a data value that is not a JSON object.
DataMismatch == reply.body.data.kind = "value" /\ ~reply.body.data.obj

\* C1 as stated: when the body parses as an envelope, do reports success if
\* and only if the HTTP status is 2xx and the envelope status is ok/success
\* in any letter case.
C1_Original ==
  EnvelopeParsed => (result.kind = "ok" <=> (Is2xx(reply.code) /\ SaysOk))

\* C1 amended: when the body parses as an envelope, do reports an API error
\* if and only if the HTTP status is not 2xx or the envelope status is not
\* ok/success in any letter case; otherwise it reports success, except that a
\* present data value that does not fit a requested destination is a decode
\* error.
C1_EnvelopeOutcome ==
  EnvelopeParsed =>
    /\ result.kind = "api" <=> ~(Is2xx(reply.code) /\ SaysOk)
    /\ result.kind = "api" => result.code = reply.code
    /\ (Is2xx(reply.code) /\ SaysOk) =>
         /\ result.kind = "decode" <=> (call.wantOut /\ DataMismatch)
         /\ result.kind = "ok" <=> ~(call.wantOut /\ DataMismatch)

C1_Witness ==
  /\ EnvelopeParsed
  /\ reply.code = 201
  /\ reply.body.status = << "S", "u", "c", "c", "e", "s", "s" >>
  /\ result.kind = "ok"

\* C2: a non-2xx response whose body is empty or does not parse as an
\* envelope yields an API error with the HTTP status code and a non-empty
\* message: the trimmed body text, or the status line when the body is empty
\* or blank.
C2_UnparsableFailure ==
  (Answered /\ ~Is2xx(reply.code) /\ (Len(reply.body.raw) = 0 \/ ~reply.body.valid)) =>
    /\ result.kind = "api"
    /\ result.code = reply.code
    /\ result.msg # <<>>
    /\ IF Blank(reply.body.raw)
       THEN TrimSpace(result.msg) = TrimSpace(reply.line)
       ELSE result.msg = TrimSpace(reply.body.raw)

C2_Witness ==
  /\ Answered
  /\ reply.code = 599
  /\ reply.body.raw = << " ", "\n" >>
  /\ result.kind = "api"
  /\ call.op = "DeleteService"

\* C3: a 2xx response whose non-empty body does not parse as an envelope
\* yields a decode error: not success, not an API error, no status code.
C3_DecodeFailure ==
  (Answered /\ Is2xx(reply.code) /\ Len(reply.body.raw) > 0 /\ ~reply.body.valid) =>
    /\ result.kind = "decode"
    /\ result.code = 0

C3_Witness ==
  /\ Answered
  /\ reply.code = 200
  /\ reply.body = DocArray
  /\ result.kind = "decode"

\* The last call was a method other than Login and sent a request.
SentRequest == call.op \notin {"new", "Login"} /\ wire # <<>>

\* C4 as stated: once a Login has returned success, every later request of
\* the client carries "Bearer " followed by the token that Login returned.
C4_BearerAfterLogin ==
  (lastToken.set /\ SentRequest) => wire[1].auth = Ptr(sBearer \o lastToken.val)

\* The credentials a Basic Authorization header carries, as a server
\* decodes them.
BasicCredentials(header) ==
  IF header.set /\ HasPrefix(header.val, sBasic)
  THEN DecodeString(SubSeq(header.val, Len(sBasic) + 1, Len(header.val)))
  ELSE [ok |-> FALSE, val |-> <<>>]

\* C5: the Login request carries Basic credentials made of Login's own
\* arguments, whatever the client was constructed with, never the Bearer
\* token.
C5_LoginUsesBasic ==
  (call.op = "Login" /\ wire # <<>>) =>
    /\ BasicCredentials(wire[1].auth)
         = [ok |-> TRUE, val |-> call.args.username \o << ":" >> \o call.args.password]
    /\ ~HasPrefix(wire[1].auth.val, sBearer)

C5_Witness ==
  /\ call.op = "Login"
  /\ wire # <<>>
  /\ apiToken = << "t", "0" >>
  /\ apiUsername = <<>>
  /\ call.args.username = sAdmin
  /\ result.kind = "api"

\* C6: a request carries Bearer and the token when a token is set; else
\* Basic and the configured credentials when both are set; else no
\* Authorization header.
C6_AuthPriority ==
  SentRequest =>
    IF apiToken # <<>> THEN wire[1].auth = Ptr(sBearer \o apiToken)
    ELSE IF apiUsername # <<>> /\ apiPassword # <<>>
    THEN BasicCredentials(wire[1].auth)
           = [ok |-> TRUE, val |-> apiUsername \o << ":" >> \o apiPassword]
    ELSE ~wire[1].auth.set

C6_Witness ==
  /\ SentRequest
  /\ apiToken = << "t", "0" >>
  /\ apiUsername = sAdmin
  /\ apiPassword = sSecret
  /\ wire[1].auth = Ptr(sBearer \o << "t", "0" >>)

\* C7: Login with a blank username or password fails locally: the error is
\* not an API error and no request is sent.
C7_LoginValidation ==
  (call.op = "Login" /\ (Blank(call.args.username) \/ Blank(call.args.password))) =>
    /\ result.kind = "local"
    /\ wire = <<>>

C7_Witness ==
  /\ call.op = "Login"
  /\ call.args.username = << " " >>
  /\ call.args.password = sSecret
  /\ result.kind = "local"
BulkMethods == { "BanBulk", "UnbanBulk", "DeleteConfigs", "DeleteInstances" }

\* C8: BanBulk, UnbanBulk, DeleteConfigs and DeleteInstances called with an
\* empty batch return a local validation error, send no request, and leave
\* the control plane's bans, configs and instances as they were.
C8_EmptyBatchLocal ==
  [][ (call'.op \in BulkMethods /\ Len(call'.args.batch) = 0)
        => /\ result'.kind = "local"
           /\ wire' = <<>>
           /\ UNCHANGED controlPlane ]_vars

\* An empty unban batch was refused while bans, configs and instances all
\* existed on the control plane.
C8_Witness ==
  /\ call.op = "UnbanBulk"
  /\ Len(call.args.batch) = 0
  /\ result.kind = "local"
  /\ wire = <<>>
  /\ bans # EmptyMap
  /\ configs # EmptyMap
  /\ instances # EmptyMap
\* The ConfigKey a config call addressed, and whether a batch held it.
SameKey(a, b) == a.service = b.service /\ a.type = b.type /\ a.name = b.name

InBatch(key, batch) == \E i \in 1..Len(batch) : SameKey(batch[i], key)

NotFound(res) == res.kind = "api" /\ res.code = 404

\* C9: a config that was created is read back, data included, with the data
\* it was created with; and once its key has been deleted, by DeleteConfig or
\* by a DeleteConfigs batch holding it, GetConfig on the key is answered with
\* a 404 API error.
C9_CreateReadDelete ==
  [][ /\ ( /\ call.op = "CreateConfig" /\ result.kind = "ok"
           /\ call'.op = "GetConfig" /\ call'.args.withData
           /\ SameKey(call'.args.key, call.args.key) )
         => /\ result'.kind = "ok"
            /\ result'.out.set
            /\ result'.out.val.config.data = call.args.data
      /\ ( /\ call.op = "DeleteConfig" /\ result.kind = "ok"
           /\ call'.op = "GetConfig"
           /\ SameKey(call'.args.key, call.args.key) )
         => NotFound(result')
      /\ ( /\ call.op = "DeleteConfigs" /\ result.kind = "ok"
           /\ call'.op = "GetConfig"
           /\ InBatch(call'.args.key, call.args.batch) )
         => NotFound(result') ]_vars
\* What a request of the client would get from the control plane in the
\* current state: the method's result and the configs left behind.
Outcome(method, endpoint, body, wantOut) ==
  LET exchange == handle(Request(method, endpoint, body), configs, bans, instances)
  IN [result |-> do(exchange.resp, wantOut), configs |-> exchange.configs]

CreateOutcome(key, data) ==
  Outcome("POST", sConfigs,
          [service |-> key.service, type |-> key.type, name |-> key.name, data |-> data], TRUE)

GetOutcome(key) == Outcome("GET", configPath(key) \o << "?" >> \o sWithData \o << "=" >> \o sTrue,
                           NoBody, TRUE)

UpdateOutcome(key, data) == Outcome("PATCH", configPath(key), DataUpdate(data), TRUE)

DeleteOutcome(key) == Outcome("DELETE", configPath(key), NoBody, FALSE)

BatchDeleteOutcome(key) == Outcome("DELETE", sConfigs, [configs |-> << key >>], FALSE)

Addressed(service, type, name) == [service |-> service, type |-> type, name |-> name]

\* The five config operations cannot tell service from the omitted service.
ActsAsOmitted(service, type, name) ==
  LET key == Addressed(service, type, name)
      omitted == Addressed(Nil, type, name)
  IN /\ GetOutcome(key) = GetOutcome(omitted)
     /\ DeleteOutcome(key) = DeleteOutcome(omitted)
     /\ BatchDeleteOutcome(key) = BatchDeleteOutcome(omitted)
     /\ \A d \in ConfigData :
          /\ CreateOutcome(key, d) = CreateOutcome(omitted, d)
          /\ UpdateOutcome(key, d) = UpdateOutcome(omitted, d)

\* C10: config service normalization maps the absent service, the empty
\* service and the case variants of "global" to the identity "global" and is
\* idempotent; the config resource's key for any of them is the key with the
\* service omitted; a config created under any of them is stored under
\* "global"; and create, get, update, delete and batch delete addressed with
\* any of them do exactly what they do with the service omitted.
C10_GlobalIdentity ==
  /\ \A v \in GlobalVariants :
       /\ normalizeConfigService(v) = sGlobal
       /\ toConfigKey(v, sHttp, << "a" >>).service = Nil
  /\ \A s \in ConfigServices :
       /\ normalizeConfigService(Ptr(normalizeConfigService(s))) = normalizeConfigService(s)
       /\ normalizeTFService(Ptr(normalizeTFService(s))) = normalizeTFService(s)
  /\ (call.op = "CreateConfig" /\ result.kind = "ok" /\ call.args.key.service \in GlobalVariants)
       => LET stored == configStorageKey(sGlobal, call.args.key.type, call.args.key.name)
          IN /\ stored \in DOMAIN configs
             /\ configs[stored].service = sGlobal
             /\ configs[stored].data = call.args.data
             /\ result.out.val.config.service = sGlobal
  /\ \A v \in GlobalVariants, t \in ConfigTypes, n \in ConfigNames : ActsAsOmitted(v, t, n)

\* A config created with the service omitted has just been read back, with
\* its data, under the service "GLOBAL".
C10_Witness ==
  /\ call.op = "GetConfig"
  /\ call.args.withData
  /\ call.args.key.service = Ptr(<< "G", "L", "O", "B", "A", "L" >>)
  /\ call.args.key.name = << "a" >>
  /\ result.kind = "ok"
  /\ result.out.val.config.service = sGlobal
  /\ result.out.val.config.data # <<>>
  /\ configStorageKey(sGlobal, call.args.key.type, call.args.key.name) \in DOMAIN configs
(***************************************************************************)
(* Bans                                                                    *)
(***************************************************************************)

\* Ban(req): the single request travels as a one-element array.
Ban(req) ==
  /\ call' = Called("Ban", [batch |-> << req >>], FALSE, "api")
  /\ Invoke("POST", << "b", "a", "n", "s" >>, << req >>, FALSE, "api", NoReply)

\* Unban(req)
Unban(req) ==
  /\ call' = Called("Unban", [batch |-> << req >>], FALSE, "api")
  /\ Invoke("DELETE", << "b", "a", "n", "s" >>, << req >>, FALSE, "api", NoReply)

sIP2 == << "1", "0", ".", "0", ".", "0", ".", "2" >>

BanIPs == { sIP, sIP2 }

BanServices == { Nil, Ptr(sWeb), Ptr(<< "G", "L", "O", "B", "A", "L" >>) }

BanTargets == { [ip |-> ip, service |-> s] : ip \in BanIPs, s \in BanServices }

BulkBans ==
  { [ip |-> sIP, exp |-> Nil, reason |-> Nil, service |-> Nil],
    [ip |-> sIP, exp |-> Nil, reason |-> Nil, service |-> Ptr(sWeb)],
    [ip |-> sIP2, exp |-> Nil, reason |-> Nil, service |-> Ptr(<< "G", "L", "O", "B", "A", "L" >>)] }

BulkUnbans ==
  { [ip |-> sIP, service |-> Nil],
    [ip |-> sIP, service |-> Ptr(<< "G", "L", "O", "B", "A", "L" >>)],
    [ip |-> sIP2, service |-> Ptr(sWeb)] }

\* Bans placed and lifted one at a time and in bulk, for two addresses, with
\* the service omitted, named, and named "GLOBAL".
NextBan ==
  \/ \E t \in BanTargets :
       Ban([ip |-> t.ip, exp |-> Nil, reason |-> Nil, service |-> t.service])
  \/ \E t \in BanTargets : Unban(t)
  \/ \E b \in Batches(BulkBans) : BanBulk(b)
  \/ \E b \in Batches(BulkUnbans) : UnbanBulk(b)

SpecBan == InitConfig /\ [][NextBan]_vars

\* The (ip, service) pairs of a batch of unban requests, the service taken as
\* the request names it: omitted, or the name given.
NamedPairs(batch) ==
  { << TrimSpace(batch[i].ip), batch[i].service >> : i \in 1..Len(batch) }

\* The same pairs when a blank service and every letter case of "global"
\* count as the omitted service.
ScopeOf(service) ==
  IF ~service.set THEN Nil
  ELSE IF Blank(service.val) \/ SameUpToCase(TrimSpace(service.val), sGlobal)
       THEN Nil
       ELSE Ptr(TrimSpace(service.val))

ScopedPairs(batch) ==
  { << TrimSpace(batch[i].ip), ScopeOf(batch[i].service) >> : i \in 1..Len(batch) }

\* The step lifted exactly the stored bans whose (ip, service) is one of the
\* pairs, and left every other ban as it was.
LiftsExactly(pairs) ==
  /\ \A k \in DOMAIN bans :
       k \in DOMAIN bans' <=> << bans[k].ip, bans[k].service >> \notin pairs
  /\ \A k \in DOMAIN bans' : k \in DOMAIN bans /\ bans'[k] = bans[k]

UnbanAccepted == call'.op \in { "Unban", "UnbanBulk" } /\ result'.kind = "ok"

TrimmedField(p) == IF p.set THEN Ptr(TrimSpace(p.val)) ELSE Nil

\* UpdateConfigFromUpload(key, input): one file part and the optional
\* new_service, new_type and new_name fields, sent to <configPath>/upload.
UpdateConfigFromUpload(key, input) ==
  /\ call' = Called("UpdateConfigFromUpload", [key |-> key, input |-> input], TRUE, "api")
  /\ IF TrimSpace(input.fileName) = <<>> THEN Reject
     ELSE Invoke("PATCH", Join(<< configPath(key), << "u", "p", "l", "o", "a", "d" >> >>),
                 [files |-> << [name |-> TrimSpace(input.fileName),
                                content |-> input.content] >>,
                  new_service |-> TrimmedField(input.newService),
                  new_type |-> TrimmedField(input.newType),
                  new_name |-> TrimmedField(input.newName)],
                 TRUE, "api", NoReply)

sApp == << "a", "p", "p" >>

sStream == << "s", "t", "r", "e", "a", "m" >>

UploadKeys == { [service |-> s, type |-> sHttp, name |-> << "a" >>] : s \in { Nil, Ptr(sApp) } }

\* Uploads that replace in place, move with all three fields, move by name
\* only, move by service only, and one without a file name.
UploadInputs ==
  { [fileName |-> f, content |-> << "c", "1" >>,
     newService |-> m[1], newType |-> m[2], newName |-> m[3]] :
      f \in { << "f" >> },
      m \in { << Nil, Nil, Nil >>,
              << Ptr(sApp), Ptr(sStream), Ptr(<< "b" >>) >>,
              << Nil, Nil, Ptr(<< "b" >>) >>,
              << Ptr(sGlobal), Nil, Nil >> } }
  \cup { [fileName |-> << " " >>, content |-> << "c", "1" >>, newService |-> Nil,
          newType |-> Nil, newName |-> Nil] }

\* Configs created, replaced and moved by upload, and read back.
NextUpload ==
  \/ \E k \in UploadKeys :
       CreateConfig([service |-> k.service, type |-> k.type, name |-> k.name,
                     data |-> << "d", "1" >>])
  \/ \E k \in UploadKeys, i \in UploadInputs : UpdateConfigFromUpload(k, i)
  \/ \E k \in UploadKeys : GetConfig(k, TRUE)

SpecUpload == InitConfig /\ [][NextUpload]_vars

\* The key an upload-update names: each new_ field that is supplied replaces
\* the member of the original key.
NamedKey(key, input) ==
  [service |-> IF input.newService.set THEN input.newService ELSE key.service,
   type |-> IF input.newType.set THEN input.newType.val ELSE key.type,
   name |-> IF input.newName.set THEN input.newName.val ELSE key.name]

\* The identity of a key: its service with "global" for the omitted one.
Identity(key) == << normalizeConfigService(key.service), key.type, key.name >>

\* What GetConfig(key, with data) gets from the control plane right after
\* the step.
GetAfter(key) ==
  do(handle(Request("GET", configPath(key) \o << "?" >> \o sWithData \o << "=" >> \o sTrue,
                    NoBody), configs', bans', instances').resp, TRUE)

StoredBefore(identity) ==
  \E k \in DOMAIN configs :
    << configs[k].service, configs[k].type, configs[k].name >> = identity

StoredFor(identities) ==
  { k \in DOMAIN configs' :
      << configs'[k].service, configs'[k].type, configs'[k].name >> \in identities }

Relocated(from, to, content) ==
  /\ NotFound(GetAfter(from))
  /\ GetAfter(to).kind = "ok"
  /\ GetAfter(to).out.val.config.data = content
  /\ Cardinality(StoredFor({ Identity(from), Identity(to) })) = 1

\* An accepted upload-update of a stored config names another key.
UploadMoves ==
  /\ call'.op = "UpdateConfigFromUpload"
  /\ result'.kind = "ok"
  /\ StoredBefore(Identity(call'.args.key))
  /\ Identity(NamedKey(call'.args.key, call'.args.input)) # Identity(call'.args.key)

\* C12: an accepted UpdateConfigFromUpload on key K whose new_service,
\* new_type and new_name fields name a different key K' leaves GetConfig(K)
\* answered not-found and GetConfig(K', with data) answered with the uploaded
\* content, one config existing for the two keys.
C12_UploadRelocates ==
  [][ UploadMoves => Relocated(call'.args.key,
                               NamedKey(call'.args.key, call'.args.input),
                               call'.args.input.content) ]_vars
(***************************************************************************)
(* BunkerWebInstanceActionEphemeralResource                                *)
(***************************************************************************)

\* listToStrings: a null list gives no hostnames; each element is trimmed,
\* and an empty one is a diagnostic.
listToStrings(list) ==
  IF ~list.set THEN [ok |-> TRUE, values |-> <<>>]
  ELSE IF \E i \in 1..Len(list.val) : TrimSpace(list.val[i]) = <<>>
       THEN [ok |-> FALSE, values |-> <<>>]
       ELSE [ok |-> TRUE, values |-> [i \in 1..Len(list.val) |-> TrimSpace(list.val[i])]]

\* The query ReloadInstances and ReloadInstance append for a test flag.
testQuery_Always(test) ==
  << "?", "t", "e", "s", "t", "=" >> \o RenderBool(test.set /\ test.val)

\* ReloadInstances and ReloadInstance, lines 658-662 and 683-687: the query
\* holds test only when the caller gave the flag.
testQuery(test) ==
  IF test.set THEN << "?", "t", "e", "s", "t", "=" >> \o RenderBool(test.val) ELSE <<>>

\* PingInstances, ReloadInstances(test), StopInstances: the one request to
\* the collection.
collectionRequest(op, test) ==
  CASE op = << "p", "i", "n", "g" >> -> Request("GET", << "i", "n", "s", "t", "a", "n", "c", "e", "s", "/", "p", "i", "n", "g" >>, NoBody)
    [] op = << "r", "e", "l", "o", "a", "d" >> -> Request("POST", << "i", "n", "s", "t", "a", "n", "c", "e", "s", "/", "r", "e", "l", "o", "a", "d" >> \o testQuery(test), NoBody)
    [] op = << "s", "t", "o", "p" >> -> Request("POST", << "i", "n", "s", "t", "a", "n", "c", "e", "s", "/", "s", "t", "o", "p" >>, NoBody)

\* PingInstance, ReloadInstance(test), StopInstance: the request for a host.
hostRequest(op, host, test) ==
  CASE op = << "p", "i", "n", "g" >> -> Request("GET", Join(<< sInstances, host, << "p", "i", "n", "g" >> >>), NoBody)
    [] op = << "r", "e", "l", "o", "a", "d" >> ->
         Request("POST", Join(<< sInstances, host, << "r", "e", "l", "o", "a", "d" >> >>) \o testQuery(test), NoBody)
    [] op = << "s", "t", "o", "p" >> -> Request("POST", Join(<< sInstances, host, << "s", "t", "o", "p" >> >>), NoBody)

\* What a dispatch has done so far: the requests sent, the last response,
\* the payloads by host, and what the control plane recorded.
Dispatch(sent, last, responses, log) ==
  [wire |-> sent, reply |-> last, responses |-> responses, applied |-> log]

Finished(done, res) ==
  [wire |-> done.wire, reply |-> done.reply, result |-> res, applied |-> done.applied]

\* The loop of handlePing, handleReload and handleStop: one client call per
\* host in list order, returning the first error.
RECURSIVE fanOut(_, _, _, _)
\* The loop without its early return: a failed host is passed over.
hostAnswered_ContinueOnError(op, hosts, test, done, req, exchange, res) ==
  fanOut(op, Tail(hosts), test,
         Dispatch(Append(done.wire, req), exchange.resp,
                  IF res.kind = "ok" THEN Put(done.responses, Head(hosts), res.out.val)
                  ELSE done.responses,
                  done.applied \o recorded(req, instances)))

\* The body of the loop after the client call: return its error, or keep
\* the payload and go on.
hostAnswered(op, hosts, test, done, req, exchange, res) ==
  IF res.kind # "ok"
  THEN Finished(Dispatch(Append(done.wire, req), exchange.resp, done.responses,
                         done.applied \o recorded(req, instances)), res)
  ELSE fanOut(op, Tail(hosts), test,
              Dispatch(Append(done.wire, req), exchange.resp,
                       Put(done.responses, Head(hosts), res.out.val),
                       done.applied \o recorded(req, instances)))

hostExchanged(op, hosts, test, done, req, exchange) ==
  hostAnswered(op, hosts, test, done, req, exchange, do(exchange.resp, TRUE))

fanOut(op, hosts, test, done) ==
  IF hosts = <<>> THEN Finished(done, ResOk(Ptr(done.responses)))
  ELSE IF TrimSpace(Head(hosts)) = <<>> THEN Finished(done, ResLocal)
  ELSE hostExchanged(op, hosts, test, done, hostRequest(op, Head(hosts), test),
                     handle(hostRequest(op, Head(hosts), test), configs, bans, instances))

\* The collection-level call of handlePing, handleReload and handleStop.
collectionAnswered(req, resp) ==
  [wire |-> << req >>, reply |-> resp, result |-> do(resp, TRUE),
   applied |-> recorded(req, instances)]

\* The dispatch without the collection-level branch.
handleAction_FanOutOnly(op, hostnames, test) ==
  fanOut(op, hostnames, test, Dispatch(<<>>, NoReply, EmptyMap, <<>>))

\* handlePing, handleReload, handleStop: the collection's endpoint when no
\* hostnames are given, else the loop over them.
handleAction(op, hostnames, test) ==
  IF Len(hostnames) = 0
  THEN collectionAnswered(collectionRequest(op, test),
                          handle(collectionRequest(op, test), configs, bans, instances).resp)
  ELSE fanOut(op, hostnames, test, Dispatch(<<>>, NoReply, EmptyMap, <<>>))

\* The outcome of a dispatch becomes the state after Open.
Dispatched(outcome) ==
  /\ wire' = outcome.wire
  /\ reply' = outcome.reply
  /\ result' = outcome.result
  /\ applied' = outcome.applied
  /\ UNCHANGED << controlPlane, client, provider, lastToken >>

Operations == { << "p", "i", "n", "g" >>, << "r", "e", "l", "o", "a", "d" >>, << "s", "t", "o", "p" >>, << "d", "e", "l", "e", "t", "e" >> }

\* handleDelete sending the batch whatever its length.
handleDelete_Unchecked(hostnames) ==
  Invoke("DELETE", sInstances, [instances |-> hostnames], FALSE, "api", NoReply)

\* handleDelete: a local error without hostnames, else DeleteInstances.
handleDelete(hostnames) ==
  IF Len(hostnames) = 0 \/ ~batchAccepted(hostnames) THEN Reject
  ELSE Invoke("DELETE", sInstances, [instances |-> hostnames], FALSE, "api", NoReply)

\* Open, lines 97-128: the operation is trimmed and lower-cased and must be
\* one of the four; the hostnames must convert.
openAction(op, hostnames, test) ==
  IF op \notin Operations \/ ~hostnames.ok THEN Reject
  ELSE IF op = << "d", "e", "l", "e", "t", "e" >> THEN handleDelete(hostnames.values)
  ELSE Dispatched(handleAction(op, hostnames.values, test))

\* Open(operation, hostnames, test)
Open(operation, hostnames, test) ==
  /\ call' = Called("Open", [operation |-> ToLower(TrimSpace(operation)),
                              hostnames |-> listToStrings(hostnames), test |-> test],
                    TRUE, "api")
  /\ openAction(ToLower(TrimSpace(operation)), listToStrings(hostnames), test)
(***************************************************************************)
(* Instance actions: specification                                         *)
(***************************************************************************)

HostLists ==
  { Nil, Ptr(<< << " " >> >>) } \cup { Ptr(b) : b \in Batches(Hostnames) }

TestFlags ==
  { [set |-> FALSE, val |-> FALSE], [set |-> TRUE, val |-> FALSE], [set |-> TRUE, val |-> TRUE] }

OperationTexts == Operations \cup { << " ", "P", "i", "n", "g" >>, << "r", "e", "s", "t", "a", "r", "t" >> }

\* Instances registered and removed, and every operation dispatched to no
\* hostnames, to one and to several, known or not.
NextInstance ==
  \/ \E h \in Hostnames : CreateInstance([hostname |-> h])
  \/ \E b \in Batches(Hostnames) : DeleteInstances(b)
  \/ \E o \in OperationTexts, l \in HostLists, t \in TestFlags : Open(o, l, t)

SpecInstance == InitConfig /\ [][NextInstance]_vars

FanOutOperations == { << "p", "i", "n", "g" >>, << "r", "e", "l", "o", "a", "d" >>, << "s", "t", "o", "p" >> }

\* Open dispatched a ping, reload or stop to a list of hostnames.
FannedOut ==
  /\ call.op = "Open"
  /\ call.args.operation \in FanOutOperations
  /\ call.args.hostnames.ok
  /\ Len(call.args.hostnames.values) > 0

\* The path of the per-host endpoint.
HostPath(op, host) == << "/", "i", "n", "s", "t", "a", "n", "c", "e", "s", "/" >> \o host \o << "/" >> \o op

\* The first host of the call that is not registered, 0 when all are.
FirstUnknown(hosts) ==
  IF \A i \in 1..Len(hosts) : hosts[i] \in DOMAIN instances THEN 0
  ELSE CHOOSE i \in 1..Len(hosts) :
         /\ hosts[i] \notin DOMAIN instances
         /\ \A j \in 1..(i - 1) : hosts[j] \in DOMAIN instances

\* The number of requests a fan-out over hosts sends.
Reached(hosts) == IF FirstUnknown(hosts) = 0 THEN Len(hosts) ELSE FirstUnknown(hosts)

\* C13: a ping, reload or stop given hostnames sends one request per
\* hostname, in list order, up to and including the first host that fails;
\* nothing is sent for a later hostname; a failure is returned as the
\* action's error without a result map; and the actions the control plane
\* recorded for the earlier hostnames stay recorded.
C13_FanOutAborts ==
  FannedOut =>
    /\ Len(wire) = Reached(call.args.hostnames.values)
    /\ \A i \in 1..Len(wire) :
         wire[i].path = HostPath(call.args.operation, call.args.hostnames.values[i])
    /\ FirstUnknown(call.args.hostnames.values) # 0
         => /\ result.kind = "api"
            /\ ~result.out.set
    /\ FirstUnknown(call.args.hostnames.values) = 0
         => /\ result.kind = "ok"
            /\ DOMAIN result.out.val
                 = { call.args.hostnames.values[i] : i \in 1..Len(call.args.hostnames.values) }
    /\ Len(applied) = Len(wire) - (IF result.kind = "ok" THEN 0 ELSE 1)
    /\ \A i \in 1..Len(applied) :
         /\ applied[i].op = call.args.operation
         /\ ~applied[i].all
         /\ applied[i].host = call.args.hostnames.values[i]

\* A stop of h1 then h2 failed on h2: h1 was stopped, h2's request was the
\* last one sent, and the error came back.
C13_Witness ==
  /\ FannedOut
  /\ call.args.operation = << "s", "t", "o", "p" >>
  /\ call.args.hostnames.values = << << "h", "1" >>, << "h", "2" >> >>
  /\ DOMAIN instances = { << "h", "1" >> }
  /\ Len(wire) = 2
  /\ result.kind = "api"
  /\ Len(applied) = 1

\* The hostnames of an instance delete: those of a delete action whose
\* hostnames converted, or those passed to DeleteInstances.
DeleteRequested ==
  \/ call.op = "DeleteInstances"
  \/ /\ call.op = "Open"
     /\ call.args.operation = << "d", "e", "l", "e", "t", "e" >>
     /\ call.args.hostnames.ok

DeleteHosts ==
  IF call.op = "DeleteInstances" THEN call.args.batch ELSE call.args.hostnames.values

\* C14: an instance delete without hostnames, by the delete action or by
\* DeleteInstances, fails locally and sends nothing; with hostnames it sends
\* exactly one request, DELETE /instances, whose body carries all of them.
C14_DeleteNeedsHosts ==
  DeleteRequested =>
    /\ Len(DeleteHosts) = 0 => (result.kind = "local" /\ wire = <<>>)
    /\ Len(DeleteHosts) > 0
         => /\ Len(wire) = 1
            /\ wire[1].method = "DELETE"
            /\ wire[1].path = << "/", "i", "n", "s", "t", "a", "n", "c", "e", "s" >>
            /\ wire[1].body = [instances |-> DeleteHosts]

\* A delete action for h1 and h2 went out as one request and removed both.
C14_BatchSent ==
  /\ call.op = "Open"
  /\ call.args.operation = << "d", "e", "l", "e", "t", "e" >>
  /\ call.args.hostnames.values = << << "h", "1" >>, << "h", "2" >> >>
  /\ Len(wire) = 1
  /\ wire[1].body.instances = << << "h", "1" >>, << "h", "2" >> >>
  /\ result.kind = "ok"
  /\ instances = EmptyMap

\* A delete action without hostnames was refused while instances existed.
C14_Witness ==
  /\ call.op = "Open"
  /\ call.args.operation = << "d", "e", "l", "e", "t", "e" >>
  /\ call.args.hostnames.values = <<>>
  /\ result.kind = "local"
  /\ instances # EmptyMap

\* C15: a ping, reload or stop without hostnames, the attribute omitted or
\* an empty list, sends exactly one request, to the collection's endpoint
\* /instances/<operation>, and the control plane records one action on all
\* instances and none on a single host.
C15_CollectionAction ==
  (/\ call.op = "Open"
   /\ call.args.operation \in FanOutOperations
   /\ call.args.hostnames.ok
   /\ Len(call.args.hostnames.values) = 0)
    => /\ Len(wire) = 1
       /\ wire[1].path = << "/", "i", "n", "s", "t", "a", "n", "c", "e", "s", "/" >> \o call.args.operation
       /\ wire[1].method = (IF call.args.operation = << "p", "i", "n", "g" >> THEN "GET" ELSE "POST")
       /\ Len(applied) = 1
       /\ applied[1].all
       /\ applied[1].op = call.args.operation
       /\ result.kind = "ok"

\* A reload without hostnames, two instances being registered, went to the
\* collection.
C15_Witness ==
  /\ call.op = "Open"
  /\ call.args.operation = << "r", "e", "l", "o", "a", "d" >>
  /\ call.args.hostnames.ok
  /\ call.args.hostnames.values = <<>>
  /\ Cardinality(DOMAIN instances) = 2
  /\ Len(wire) = 1
  /\ wire[1].path = << "/", "i", "n", "s", "t", "a", "n", "c", "e", "s", "/", "r", "e", "l", "o", "a", "d" >>
  /\ applied[1].all
(***************************************************************************)
(* Resources: Read, Delete and ImportState                                 *)
(***************************************************************************)

\* err.Error(): bunkerWebAPIError.Error for an API error, the wrapping
\* prefix of do for the others.
ErrorText(res) ==
  CASE res.kind = "api" ->
         << "b", "u", "n", "k", "e", "r", "w", "e", "b", " ", "a", "p", "i", " ", "e", "r", "r", "o", "r", " ", "(" >> \o Digits(res.code) \o << ")" >>
           \o (IF res.msg = <<>> THEN <<>> ELSE << ":", " " >> \o res.msg)
    [] res.kind = "transport" -> << "e", "x", "e", "c", "u", "t", "e", " ", "r", "e", "q", "u", "e", "s", "t" >>
    [] res.kind = "decode" -> << "d", "e", "c", "o", "d", "e", " ", "r", "e", "s", "p", "o", "n", "s", "e" >>
    [] OTHER -> <<>>

\* Read with the not-found branch taken out: every error is a diagnostic.
readOutcome_NoRemoval(res, summary, prior) ==
  IF res.kind = "ok"
  THEN [state |-> Stored(prior.kind, prior.id, res.out), diags |-> NoDiags]
  ELSE [state |-> prior, diags |-> AddError(summary, ErrorText(res))]

\* Read after the client call: a 404 API error removes the resource from
\* state, any other error becomes a diagnostic and the state stays, and a
\* payload is stored.
readOutcome(res, summary, prior) ==
  IF res.kind = "ok"
  THEN [state |-> Stored(prior.kind, prior.id, res.out), diags |-> NoDiags]
  ELSE IF res.kind = "api" /\ res.code = 404
       THEN [state |-> NoResource, diags |-> NoDiags]
       ELSE [state |-> prior, diags |-> AddError(summary, ErrorText(res))]

\* Delete after the client call: any error becomes a diagnostic and the
\* state stays; without one the resource leaves the state.
deleteOutcome(res, summary, prior) ==
  IF res.kind = "ok" THEN [state |-> NoResource, diags |-> NoDiags]
  ELSE [state |-> prior, diags |-> AddError(summary, ErrorText(res))]

Concluded(outcome) ==
  /\ tfstate' = outcome.state
  /\ diags' = outcome.diags
  /\ UNCHANGED << client, lastToken >>

\* The client call of a resource operation, then its conclusion.
Refresh(endpoint, summary, resp) ==
  /\ Exchange(Request("GET", endpoint, NoBody), "raw", resp)
  /\ result' = do(reply', TRUE)
  /\ Concluded(readOutcome(result', summary, tfstate))

Destroy(endpoint, body, summary, resp) ==
  /\ Exchange(Request("DELETE", endpoint, body), "raw", resp)
  /\ result' = do(reply', FALSE)
  /\ Concluded(deleteOutcome(result', summary, tfstate))

Managed(kind) == tfstate.kind = kind /\ ~tfstate.removed

\* ImportState: the resource enters the state under its identity.
ImportState(kind, id) ==
  /\ call' = Called("ImportState", [kind |-> kind, id |-> id], FALSE, "raw")
  /\ tfstate' = Stored(kind, id, Nil)
  /\ diags' = NoDiags
  /\ wire' = <<>>
  /\ reply' = NoReply
  /\ result' = ResOk(Unset)
  /\ applied' = <<>>
  /\ UNCHANGED << controlPlane, client, lastToken >>

\* BunkerWebResource.Read
ServiceRead(resp) ==
  /\ Managed("service")
  /\ call' = Called("Read", [kind |-> "service"], TRUE, "raw")
  /\ Refresh(Join(<< sServices, tfstate.id >>), << "U", "n", "a", "b", "l", "e", " ", "t", "o", " ", "R", "e", "a", "d", " ", "S", "e", "r", "v", "i", "c", "e" >>, resp)

\* BunkerWebInstanceResource.Read
InstanceRead(resp) ==
  /\ Managed("instance")
  /\ call' = Called("Read", [kind |-> "instance"], TRUE, "raw")
  /\ Refresh(Join(<< sInstances, tfstate.id >>), << "U", "n", "a", "b", "l", "e", " ", "t", "o", " ", "R", "e", "a", "d", " ", "I", "n", "s", "t", "a", "n", "c", "e" >>, resp)

\* BunkerWebConfigResource.Read
ConfigRead(resp) ==
  /\ Managed("config")
  /\ call' = Called("Read", [kind |-> "config"], TRUE, "raw")
  /\ Refresh(configPath(toConfigKey(tfstate.id.service, tfstate.id.type, tfstate.id.name))
               \o << "?" >> \o sWithData \o << "=" >> \o sTrue,
             << "U", "n", "a", "b", "l", "e", " ", "t", "o", " ", "R", "e", "a", "d", " ", "C", "o", "n", "f", "i", "g" >>, resp)

\* BunkerWebResource.Delete
ServiceDelete(resp) ==
  /\ Managed("service")
  /\ call' = Called("Delete", [kind |-> "service"], FALSE, "raw")
  /\ Destroy(Join(<< sServices, tfstate.id >>), NoBody, << "U", "n", "a", "b", "l", "e", " ", "t", "o", " ", "D", "e", "l", "e", "t", "e", " ", "S", "e", "r", "v", "i", "c", "e" >>, resp)

\* BunkerWebInstanceResource.Delete
InstanceDelete(resp) ==
  /\ Managed("instance")
  /\ call' = Called("Delete", [kind |-> "instance"], FALSE, "raw")
  /\ Destroy(Join(<< sInstances, tfstate.id >>), NoBody, << "U", "n", "a", "b", "l", "e", " ", "t", "o", " ", "D", "e", "l", "e", "t", "e", " ", "I", "n", "s", "t", "a", "n", "c", "e" >>, resp)

\* BunkerWebConfigResource.Delete
ConfigDelete(resp) ==
  /\ Managed("config")
  /\ call' = Called("Delete", [kind |-> "config"], FALSE, "raw")
  /\ Destroy(configPath(toConfigKey(tfstate.id.service, tfstate.id.type, tfstate.id.name)),
             NoBody, << "U", "n", "a", "b", "l", "e", " ", "t", "o", " ", "D", "e", "l", "e", "t", "e", " ", "C", "o", "n", "f", "i", "g" >>, resp)

\* BunkerWebBanResource.Delete: Unban of the stored ip and trimmed service.
BanDelete(resp) ==
  /\ Managed("ban")
  /\ call' = Called("Delete", [kind |-> "ban"], FALSE, "raw")
  /\ Destroy(<< "b", "a", "n", "s" >>,
             << [ip |-> tfstate.id.ip, service |-> optionalStringPointer(tfstate.id.service)] >>,
             << "U", "n", "a", "b", "l", "e", " ", "t", "o", " ", "D", "e", "l", "e", "t", "e", " ", "B", "a", "n" >>, resp)

\* BunkerWebPluginResource.Delete
PluginDelete(resp) ==
  /\ Managed("plugin")
  /\ call' = Called("Delete", [kind |-> "plugin"], FALSE, "raw")
  /\ Destroy(Join(<< << "p", "l", "u", "g", "i", "n", "s" >>, tfstate.id >>), NoBody, << "D", "e", "l", "e", "t", "e", " ", "P", "l", "u", "g", "i", "n" >>, resp)

\* Answers of each outcome class: success with and without a payload, not
\* found with and without an envelope, other API errors with a failing
\* status, with and without a message, and with a 2xx status, a body that is no JSON, and a transport failure.
ResourceResponses ==
  { Response(200, StatusLine(200), DocOk),
    Response(200, StatusLine(200), DocEmpty),
    Response(404, StatusLine(404), DocError),
    Response(404, StatusLine(404), DocEmpty),
    Response(599, StatusLine(599), DocError),
    Response(300, StatusLine(300), DocErrorNoMessage),
    Response(200, StatusLine(200), DocError),
    Response(200, StatusLine(200), DocText),
    NetworkFailure }

Resources ==
  { [kind |-> "service", id |-> sWeb],
    [kind |-> "instance", id |-> << "h", "1" >>],
    [kind |-> "config", id |-> [service |-> Ptr(sGlobal), type |-> sHttp, name |-> << "a" >>]],
    [kind |-> "ban", id |-> [ip |-> sIP, service |-> <<>>]],
    [kind |-> "plugin", id |-> << "p", "1" >>] }

NextResource ==
  \/ \E r \in Resources : ImportState(r.kind, r.id)
  \/ \E r \in ResourceResponses : ServiceRead(r)
  \/ \E r \in ResourceResponses : InstanceRead(r)
  \/ \E r \in ResourceResponses : ConfigRead(r)
  \/ \E r \in ResourceResponses : ServiceDelete(r)
  \/ \E r \in ResourceResponses : InstanceDelete(r)
  \/ \E r \in ResourceResponses : ConfigDelete(r)
  \/ \E r \in ResourceResponses : BanDelete(r)
  \/ \E r \in ResourceResponses : PluginDelete(r)

SpecResource == InitConfig /\ [][NextResource]_vars

\* C16: a delete of a service, instance, config, ban or plugin that the
\* control plane answers with a not-found API error completes without an
\* error diagnostic, and every other failure is reported.
C16_IdempotentDelete ==
  [][ call'.op = "Delete"
        => /\ NotFound(result') => (~diags'.error /\ tfstate'.removed)
           /\ (result'.kind # "ok" /\ ~NotFound(result')) => diags'.error ]_vars

\* C17: a Read of a service, instance or config answered with a 404 API
\* error removes the resource from state without a diagnostic; every other
\* failure is reported with its code and message and leaves the stored state
\* as it was.
C17_ReadNotFoundRemoves ==
  [][ call'.op = "Read"
        => /\ NotFound(result') => (tfstate' = NoResource /\ ~diags'.error)
           /\ (result'.kind # "ok" /\ ~NotFound(result'))
                => /\ diags'.error
                   /\ diags'.detail = ErrorText(result')
                   /\ tfstate' = tfstate
           /\ result'.kind = "api"
                => /\ result'.code = reply'.code
                   /\ \E i \in 1..Len(ErrorText(result')) :
                        SubSeq(ErrorText(result'), i, i + 2) = Digits(reply'.code) ]_vars

\* A config Read was answered 404 and the config left the state.
C17_Witness ==
  /\ call.op = "Read"
  /\ call.args.kind = "config"
  /\ NotFound(result)
  /\ tfstate = NoResource
  /\ ~diags.error
(***************************************************************************)
(* Endpoints: identifiers that hold path syntax                            *)
(***************************************************************************)

InitEndpoint == \E e \in EndpointPaths : newBunkerWebClient(e, <<>>, <<>>, <<>>)

\* Identifiers as a caller may supply them: plain, and with dot segments.
PathIDs ==
  { sWeb, << ".", "." >>, << ".", ".", "/", ".", ".", "/", "x" >>, << "a", "/", ".", ".", "/", "b" >>, << ".", ".", "/", ".", ".", "/", ".", ".", "/", "x" >> }

\* Config keys: plain with the service omitted, blank and named, without a
\* type, without a name, and with a name that holds a slash.
OddKeys ==
  { [service |-> Nil, type |-> sHttp, name |-> << "a" >>],
    [service |-> Ptr(<< " " >>), type |-> sHttp, name |-> << "a" >>],
    [service |-> Ptr(sApp), type |-> sHttp, name |-> << "a" >>],
    [service |-> Ptr(sApp), type |-> <<>>, name |-> << "a" >>],
    [service |-> Nil, type |-> sHttp, name |-> <<>>],
    [service |-> Nil, type |-> sHttp, name |-> << "a", "/", "b" >>] }

\* Service ids, hostnames and config names are put into endpoints by the
\* service, instance and config methods.
NextEndpoint ==
  \/ \E id \in PathIDs, r \in LoginResponses : GetService(id, r)
  \/ \E id \in PathIDs, r \in LoginResponses : DeleteService(id, r)
  \/ \E id \in PathIDs : GetConfig([service |-> Nil, type |-> sHttp, name |-> id], TRUE)
  \/ \E id \in PathIDs : DeleteConfig([service |-> Ptr(id), type |-> sHttp, name |-> << "a" >>])
  \/ \E id \in PathIDs : Open(<< "p", "i", "n", "g" >>, Ptr(<< id >>), [set |-> FALSE, val |-> FALSE])

SpecEndpoint == InitEndpoint /\ [][NextEndpoint]_vars

\* The four methods that address a config by its key in the path.
NextKey ==
  \/ \E k \in OddKeys, w \in BOOLEAN : GetConfig(k, w)
  \/ \E k \in OddKeys : UpdateConfig(k, DataUpdate(<< "d", "1" >>))
  \/ \E k \in OddKeys : DeleteConfig(k)
  \/ \E k \in { j \in OddKeys : j.service = Nil } :
       UpdateConfigFromUpload(k, [fileName |-> << "f" >>, content |-> << "c", "1" >>,
                                  newService |-> Nil, newType |-> Nil, newName |-> Nil])

SpecKey == InitEndpoint /\ [][NextKey]_vars

\* C18: the path of every request the client sends lies under the path of
\* the configured base URL.
C18_UnderBasePath ==
  \A i \in 1..Len(wire) : HasPrefix(wire[i].path, basePath)

\* The segments of the request path after the base path and "configs/".
ConfigSegments(path) ==
  Split(TrimPrefix(path, basePath \o sConfigs \o << "/" >>), "/")

\* The service segment of a key: "global" for an absent or blank service.
ServiceSegment(key) ==
  IF key.service.set /\ ~Blank(key.service.val) THEN TrimSpace(key.service.val) ELSE sGlobal

KeyMethods == { "GetConfig", "UpdateConfig", "DeleteConfig", "UpdateConfigFromUpload" }

\* C19: the request path of GetConfig, UpdateConfig, DeleteConfig and
\* UpdateConfigFromUpload has, after configs, exactly the three segments
\* service, type and name of the key, in that order (followed by upload for
\* the upload), the service being global when absent or blank.
C19_ThreeSegments ==
  (call.op \in KeyMethods /\ wire # <<>>)
    => /\ HasPrefix(wire[1].path, basePath \o sConfigs \o << "/" >>)
       /\ ConfigSegments(wire[1].path)
            = << ServiceSegment(call.args.key), call.args.key.type, call.args.key.name >>
                \o (IF call.op = "UpdateConfigFromUpload" THEN << << "u", "p", "l", "o", "a", "d" >> >> ELSE <<>>)

(***************************************************************************)
(* Batch bodies                                                            *)
(***************************************************************************)

\* The array of items a bulk method's request body carries: the body itself
\* for BanBulk and UnbanBulk, the member configs or instances of the
\* payload object for DeleteConfigs and DeleteInstances.
BodyItems(op, body) ==
  CASE op = "DeleteConfigs" -> body.configs
    [] op = "DeleteInstances" -> body.instances
    [] OTHER -> body

\* C20: when BanBulk, UnbanBulk, DeleteConfigs or DeleteInstances is called
\* with a non-empty batch, a request is sent and the array in its body has
\* one item per item of the batch, item i being the caller's item i: nothing
\* is reordered, dropped or deduplicated.
C20_BatchBody ==
  (call.op \in BulkMethods /\ Len(call.args.batch) > 0)
    => /\ Len(wire) >= 1
       /\ \A r \in 1..Len(wire) :
            /\ Len(BodyItems(call.op, wire[r].body)) = Len(call.args.batch)
            /\ \A i \in 1..Len(call.args.batch) :
                 BodyItems(call.op, wire[r].body)[i] = call.args.batch[i]

\* A ban batch that holds the same request twice went out with both items,
\* and the control plane accepted it.
C20_Witness ==
  /\ call.op = "BanBulk"
  /\ Len(call.args.batch) = 2
  /\ call.args.batch[1] = call.args.batch[2]
  /\ Len(wire) = 1
  /\ Len(wire[1].body) = 2
  /\ wire[1].body[1] = wire[1].body[2]
  /\ result.kind = "ok"

\* A batch of two hostnames in descending order went out in that order.
C20_Descending ==
  /\ call.op = "DeleteInstances"
  /\ call.args.batch = << << "h", "2" >>, << "h", "1" >> >>
  /\ Len(wire) = 1
  /\ wire[1].body.instances = << << "h", "2" >>, << "h", "1" >> >>
(***************************************************************************)
(* Requests per call                                                       *)
(***************************************************************************)

\* Exactly once: single calls against a transport that answers anything,
\* logins, and the bulk methods against the control plane.
NextOnce ==
  \/ \E id \in ServiceIDs, r \in RawResponses : GetService(id, r)
  \/ \E id \in ServiceIDs, r \in RawResponses : DeleteService(id, r)
  \/ \E u \in Usernames, p \in Passwords, r \in LoginResponses : Login(u, p, "raw", r)
  \/ \E b \in Batches({ [ip |-> sIP, exp |-> Nil, reason |-> Nil, service |-> Nil] }) : BanBulk(b)
  \/ \E b \in Batches({ [ip |-> sIP, service |-> Nil] }) : UnbanBulk(b)
  \/ \E b \in Batches({ [service |-> Nil, type |-> sHttp, name |-> << "a" >>] }) : DeleteConfigs(b)
  \/ \E b \in Batches({ << "h", "1" >> }) : DeleteInstances(b)

SpecOnce == InitConfig /\ [][NextOnce]_vars

\* C21: a client method that passes its local validation sends exactly one
\* request and returns one outcome, success or API, decode or transport
\* error, which is the classification of the one response to that request;
\* a call refused locally sends none.  No outcome leaves a second request on
\* the wire, for single and for batch calls.
C21_ExactlyOnce ==
  [][ /\ Len(wire') <= 1
      /\ (result'.kind = "local") <=> (wire' = <<>>)
      /\ result'.kind \in { "ok", "api", "decode", "transport", "local" }
      /\ (result'.kind # "local" /\ call'.op # "Login")
           => result' = do(reply', call'.wantOut) ]_vars

\* A call whose transport failed left one request on the wire.
C21_Witness ==
  /\ call.op = "GetService"
  /\ reply.neterr
  /\ result.kind = "transport"
  /\ Len(wire) = 1

\* A batch of two went out as one request and got one answer.
C21_BatchOnce ==
  /\ call.op = "BanBulk"
  /\ Len(call.args.batch) = 2
  /\ Len(wire) = 1
  /\ result.kind = "ok"
(***************************************************************************)
(* The config resource: Create, Update, Delete and replacement             *)
(***************************************************************************)

\* &payload.Config of CreateConfig and UpdateConfig: the zero config when the
\* payload carried none.
payloadConfig(out) ==
  IF out.set /\ "config" \in DOMAIN out.val THEN out.val.config
  ELSE [service |-> <<>>, type |-> <<>>, name |-> <<>>, data |-> <<>>, method |-> <<>>]

\* populateFromConfig: the attributes the state takes from the API's config.
populateFromConfig(cfg) ==
  Stored("config",
         [service |-> Ptr(IF cfg.service = <<>> THEN sGlobal ELSE cfg.service),
          type |-> cfg.type, name |-> cfg.name],
         Ptr([data |-> cfg.data, method |-> cfg.method]))

\* Create and Update after the client call: an error is a diagnostic and the
\* state stays as it was, a config is written to the state.
writeOutcome(res, summary, prior) ==
  IF res.kind = "ok"
  THEN [state |-> populateFromConfig(payloadConfig(res.out)), diags |-> NoDiags]
  ELSE [state |-> prior, diags |-> AddError(summary, ErrorText(res))]

\* ConfigCreateRequest as Create fills it from the plan.
createInput(plan) ==
  [service |-> stringPointer(normalizeTFService(plan.service)), type |-> plan.type,
   name |-> plan.name, data |-> plan.data]

\* The schema's RequiresReplace on service, type and name: a plan that
\* differs from the state in one of them replaces the resource.
RequiresReplace(plan) ==
  \/ plan.service # tfstate.id.service
  \/ plan.type # tfstate.id.type
  \/ plan.name # tfstate.id.name

\* BunkerWebConfigResource.Create
ConfigCreate(plan) ==
  /\ tfstate = NoResource
  /\ call' = Called("Create", [kind |-> "config", plan |-> plan], TRUE, "api")
  /\ Exchange(Request("POST", sConfigs, createInput(plan)), "api", NoReply)
  /\ result' = do(reply', TRUE)
  /\ Concluded(writeOutcome(result', << "U", "n", "a", "b", "l", "e", " ", "t", "o", " ", "C", "r", "e", "a", "t", "e", " ", "C", "o", "n", "f", "i", "g" >>, tfstate))

ConfigUpdate_Rename(plan) ==
  /\ Managed("config")
  /\ call' = Called("Update", [kind |-> "config", plan |-> plan], TRUE, "api")
  /\ Exchange(Request("PATCH",
                      configPath(toConfigKey(tfstate.id.service, tfstate.id.type, tfstate.id.name)),
                      [service |-> stringPointer(normalizeTFService(plan.service)),
                       type |-> Ptr(plan.type), name |-> Ptr(plan.name),
                       data |-> Ptr(plan.data)]),
              "api", NoReply)
  /\ result' = do(reply', TRUE)
  /\ Concluded(writeOutcome(result', << "U", "n", "a", "b", "l", "e", " ", "t", "o", " ", "U", "p", "d", "a", "t", "e", " ", "C", "o", "n", "f", "i", "g" >>, tfstate))

\* BunkerWebConfigResource.Update: called with a plan whose service, type and
\* name are those of the state.
ConfigUpdate(plan) ==
  /\ Managed("config")
  /\ ~RequiresReplace(plan)
  /\ call' = Called("Update", [kind |-> "config", plan |-> plan], TRUE, "api")
  /\ Exchange(Request("PATCH", configPath(toConfigKey(plan.service, plan.type, plan.name)),
                      DataUpdate(plan.data)),
              "api", NoReply)
  /\ result' = do(reply', TRUE)
  /\ Concluded(writeOutcome(result', << "U", "n", "a", "b", "l", "e", " ", "t", "o", " ", "U", "p", "d", "a", "t", "e", " ", "C", "o", "n", "f", "i", "g" >>, tfstate))

\* BunkerWebConfigResource.Delete against the control plane.
ConfigDestroy ==
  /\ Managed("config")
  /\ call' = Called("Delete", [kind |-> "config"], FALSE, "api")
  /\ Exchange(Request("DELETE",
                      configPath(toConfigKey(tfstate.id.service, tfstate.id.type, tfstate.id.name)),
                      NoBody),
              "api", NoReply)
  /\ result' = do(reply', FALSE)
  /\ Concluded(deleteOutcome(result', << "U", "n", "a", "b", "l", "e", " ", "t", "o", " ", "D", "e", "l", "e", "t", "e", " ", "C", "o", "n", "f", "i", "g" >>, tfstate))

\* The second half of a replacement: Create of the plan on the control plane
\* as Delete left it.
replaceCreated(deleted, created, exchange) ==
  /\ wire' = << deleted, created >>
  /\ reply' = exchange.resp
  /\ configs' = exchange.configs
  /\ bans' = exchange.bans
  /\ instances' = exchange.instances
  /\ globalConfig' = globalConfig
  /\ applied' = <<>>
  /\ result' = do(reply', TRUE)
  /\ Concluded(writeOutcome(result', << "U", "n", "a", "b", "l", "e", " ", "t", "o", " ", "C", "r", "e", "a", "t", "e", " ", "C", "o", "n", "f", "i", "g" >>, NoResource))

\* The first half: Delete of the state's config; a failed delete ends the
\* replacement.
replaceDeleted(deleted, created, exchange) ==
  IF do(exchange.resp, FALSE).kind = "ok"
  THEN replaceCreated(deleted, created,
                      handle(created, exchange.configs, exchange.bans, exchange.instances))
  ELSE /\ wire' = << deleted >>
       /\ reply' = exchange.resp
       /\ configs' = exchange.configs
       /\ bans' = exchange.bans
       /\ instances' = exchange.instances
       /\ globalConfig' = globalConfig
       /\ applied' = <<>>
       /\ result' = do(reply', FALSE)
       /\ Concluded(deleteOutcome(result', << "U", "n", "a", "b", "l", "e", " ", "t", "o", " ", "D", "e", "l", "e", "t", "e", " ", "C", "o", "n", "f", "i", "g" >>, tfstate))

\* A plan that changes service, type or name: Delete with the state, then
\* Create with the plan.
ConfigReplace(plan) ==
  /\ Managed("config")
  /\ RequiresReplace(plan)
  /\ call' = Called("Replace", [kind |-> "config", plan |-> plan], TRUE, "api")
  /\ replaceDeleted(Request("DELETE",
                            configPath(toConfigKey(tfstate.id.service, tfstate.id.type,
                                                   tfstate.id.name)),
                            NoBody),
                    Request("POST", sConfigs, createInput(plan)),
                    handle(Request("DELETE",
                                   configPath(toConfigKey(tfstate.id.service, tfstate.id.type,
                                                          tfstate.id.name)),
                                   NoBody),
                           configs, bans, instances))

\* Plans: the service attribute is never null (the schema defaults it to
\* global); global in two spellings and one named service, three names, two
\* contents.
ConfigPlans ==
  [service : { Ptr(sGlobal), Ptr(<< "G", "L", "O", "B", "A", "L" >>), Ptr(sApp) }, type : { sHttp },
   name : { << "a" >>, << "b" >>, << "c" >> }, data : ConfigData]

NextConfigResource ==
  \/ \E plan \in ConfigPlans : ConfigCreate(plan)
  \/ \E plan \in ConfigPlans : ConfigUpdate(plan)
  \/ \E plan \in ConfigPlans : ConfigReplace(plan)
  \/ ConfigDestroy
  \/ CreateConfig([service |-> Nil, type |-> sHttp, name |-> << "b" >>, data |-> << "d", "1" >>])

SpecConfigResource == InitConfig /\ [][NextConfigResource]_vars

\* The ConfigKey of the config in state, and its storage key on the control
\* plane.
StateKey == toConfigKey(tfstate.id.service, tfstate.id.type, tfstate.id.name)

StorageKeyOf(attrs) ==
  configStorageKey(normalizeConfigService(stringPointer(normalizeTFService(attrs.service))),
                   attrs.type, attrs.name)

\* A request that renames: a PATCH whose body sets service, type or name.
Renames(req) ==
  /\ req.method = "PATCH"
  /\ req.body.service.set \/ req.body.type.set \/ req.body.name.set

\* C22: Update sends one PATCH with data alone to the path of the key in
\* state, after which the control plane holds the same keys and the state has
\* the same service, type and name; a plan that changes a key segment sends
\* DELETE for the old key and then POST /configs for the new one, after which
\* the new key holds a config and the old key, when it is another one, holds
\* none; no request of the resource renames.
C22_NoRename ==
  [][ /\ \A i \in 1..Len(wire') : ~Renames(wire'[i])
      /\ call'.op = "Update"
           => /\ Len(wire') = 1
              /\ wire'[1].method = "PATCH"
              /\ wire'[1].path = basePath \o configPath(StateKey)
              /\ wire'[1].body = DataUpdate(call'.args.plan.data)
              /\ DOMAIN configs' = DOMAIN configs
              /\ tfstate'.id = tfstate.id
              /\ \A k \in DOMAIN configs :
                   /\ configs'[k].service = configs[k].service
                   /\ configs'[k].type = configs[k].type
                   /\ configs'[k].name = configs[k].name
      /\ call'.op = "Replace"
           => /\ Len(wire') = 2
              /\ wire'[1].method = "DELETE"
              /\ wire'[1].path = basePath \o configPath(StateKey)
              /\ wire'[2].method = "POST"
              /\ wire'[2].path = basePath \o sConfigs
              /\ wire'[2].body = createInput(call'.args.plan)
              /\ StorageKeyOf(tfstate.id) # StorageKeyOf(call'.args.plan)
                   => StorageKeyOf(tfstate.id) \notin DOMAIN configs'
              /\ StorageKeyOf(call'.args.plan) \in DOMAIN configs' ]_vars

\* A config of service app was updated: same key, new data.
C22_Witness ==
  /\ call.op = "Update"
  /\ result.kind = "ok"
  /\ tfstate.id.service = Ptr(sApp)
  /\ tfstate.values.val.data = << "d", "2" >>
  /\ Cardinality(DOMAIN configs) = 1

\* A config was moved from name a to name b by delete and create.
C22_Moved ==
  /\ call.op = "Replace"
  /\ Len(wire) = 2
  /\ result.kind = "ok"
  /\ tfstate.id.name = << "b" >>
  /\ Cardinality(DOMAIN configs) = 1
(***************************************************************************)
(* The ban store                                                           *)
(***************************************************************************)

\* Ban requests that differ in expiration and reason for one key, and
\* requests for other keys.
StoreBans ==
  BanRequests
    \cup { [ip |-> sIP2, exp |-> [set |-> TRUE, val |-> 60], reason |-> Ptr(<< "s", "p", "a", "m" >>),
            service |-> Ptr(<< "G", "L", "O", "B", "A", "L" >>)] }

NextBanStore ==
  \/ \E r \in StoreBans : Ban(r)
  \/ \E r \in UnbanRequests : Unban(r)
  \/ \E b \in Batches(StoreBans) : BanBulk(b)
  \/ \E b \in Batches(UnbanRequests) : UnbanBulk(b)

SpecBanStore == InitConfig /\ [][NextBanStore]_vars

\* The key of a stored ban and of a request: the trimmed address with the
\* service, a service named global in any letter case being the omitted one.
BanKeyOf(ban) == << TrimSpace(ban.ip), ScopeOf(ban.service) >>

\* Expiration and reason a ban request asks for: 0 and "api" when not given.
RequestedExp(req) == IF req.exp.set THEN req.exp.val ELSE 0

RequestedReason(req) ==
  IF req.reason.set /\ ~Blank(req.reason.val) THEN TrimSpace(req.reason.val) ELSE << "a", "p", "i" >>

\* Request i is the last of the batch for its key.
LastForKey(batch, i) ==
  \A j \in (i + 1)..Len(batch) : BanKeyOf(batch[j]) # BanKeyOf(batch[i])

BanAccepted == call'.op \in { "Ban", "BanBulk" } /\ result'.kind = "ok"

GetGlobalConfig(full, methods) ==
  /\ call' = Called("GetGlobalConfig", [full |-> full, methods |-> methods], TRUE, "api")
  /\ Invoke("GET",
            sGlobalConfig
              \o (IF full \/ methods THEN << "?" >> ELSE <<>>)
              \o (IF full THEN << "f", "u", "l", "l", "=", "t", "r", "u", "e" >> ELSE <<>>)
              \o (IF full /\ methods THEN << "&" >> ELSE <<>>)
              \o (IF methods THEN << "m", "e", "t", "h", "o", "d", "s", "=", "t", "r", "u", "e" >> ELSE <<>>),
            NoBody, TRUE, "api", NoReply)

\* UpdateGlobalConfig(settings)
UpdateGlobalConfig(settings) ==
  /\ call' = Called("UpdateGlobalConfig", [settings |-> settings], TRUE, "api")
  /\ IF DOMAIN settings = {} THEN Reject
     ELSE Invoke("PATCH", sGlobalConfig, settings, TRUE, "api", NoReply)

\* BunkerWebGlobalConfigResource.ImportState
GlobalConfigImport(id) ==
  /\ call' = Called("ImportState", [kind |-> "global_config", id |-> id], FALSE, "api")
  /\ IF TrimSpace(id) = <<>>
     THEN /\ tfstate' = tfstate
          /\ diags' = AddError(<< "I", "n", "v", "a", "l", "i", "d", " ", "I", "m", "p", "o", "r", "t", " ", "I", "d", "e", "n", "t", "i", "f", "i", "e", "r" >>,
                               << "E", "x", "p", "e", "c", "t", "e", "d", " ", "a", " ", "n", "o", "n", "-", "e", "m", "p", "t", "y", " ", "g", "l", "o", "b", "a", "l", " ", "c", "o", "n", "f", "i", "g", "u", "r", "a", "t", "i", "o", "n", " ", "k", "e", "y", "." >>)
     ELSE /\ tfstate' = Stored("global_config", TrimSpace(id), Nil)
          /\ diags' = NoDiags
  /\ wire' = <<>>
  /\ reply' = NoReply
  /\ result' = ResOk(Unset)
  /\ applied' = <<>>
  /\ UNCHANGED << controlPlane, client, lastToken >>

\* map[string]any{key: nil}
ResetOf(key) == [k \in { key } |-> Nil]

\* BunkerWebGlobalConfigResource.Delete: a PATCH that resets the key.
GlobalConfigDelete ==
  /\ Managed("global_config")
  /\ call' = Called("Delete", [kind |-> "global_config"], FALSE, "api")
  /\ IF TrimSpace(tfstate.id) = <<>>
     THEN /\ RejectedLocally
          /\ tfstate' = NoResource
          /\ diags' = NoDiags
          /\ UNCHANGED << client, lastToken >>
     ELSE /\ Exchange(Request("PATCH", sGlobalConfig, ResetOf(TrimSpace(tfstate.id))),
                      "api", NoReply)
          /\ result' = do(reply', TRUE)
          /\ Concluded(deleteOutcome(result', << "U", "n", "a", "b", "l", "e", " ", "t", "o", " ", "R", "e", "s", "e", "t", " ", "G", "l", "o", "b", "a", "l", " ", "C", "o", "n", "f", "i", "g" >>, tfstate))

\* Patches: every partial map over three keys, two of which the control
\* plane holds from the start, with null or a number as the value.
PatchKeys == { sSomeSetting, sRetryLimit, << "e", "x", "t", "r", "a" >> }

SettingPatches == UNION { [d -> { Nil, Ptr(<< "7" >>) }] : d \in SUBSET PatchKeys }

NextGlobalConfig ==
  \/ \E p \in SettingPatches : UpdateGlobalConfig(p)
  \/ \E m \in BOOLEAN : GetGlobalConfig(TRUE, m)
  \/ \E id \in PatchKeys \cup { << " ", "r", "e", "t", "r", "y", "_", "l", "i", "m", "i", "t", " " >>, << " " >> } : GlobalConfigImport(id)
  \/ GlobalConfigDelete

SpecGlobalConfig == InitConfig /\ [][NextGlobalConfig]_vars

\* The step applied payload to the settings as a partial map.
AppliesPartially(payload) ==
  \A k \in DOMAIN globalConfig \cup DOMAIN globalConfig' \cup DOMAIN payload :
    IF k \in DOMAIN payload
    THEN IF payload[k].set
         THEN k \in DOMAIN globalConfig' /\ globalConfig'[k] = payload[k].val
         ELSE k \notin DOMAIN globalConfig'
    ELSE /\ k \in DOMAIN globalConfig <=> k \in DOMAIN globalConfig'
         /\ k \in DOMAIN globalConfig => globalConfig'[k] = globalConfig[k]

\* C24: an accepted global-config PATCH removes every key given null, sets
\* every key given a value to that value and keeps every key the patch does
\* not name as it was; deleting a setting sends one PATCH /global_config
\* whose body is exactly {key: null}.
C24_PartialPatch ==
  [][ /\ (call'.op = "UpdateGlobalConfig" /\ result'.kind = "ok")
           => AppliesPartially(call'.args.settings)
      /\ (call'.op = "Delete" /\ call'.args.kind = "global_config")
           => /\ Len(wire') = 1
              /\ wire'[1].method = "PATCH"
              /\ wire'[1].path = basePath \o sGlobalConfig
              /\ DOMAIN wire'[1].body = { tfstate.id }
              /\ ~wire'[1].body[tfstate.id].set
              /\ AppliesPartially(wire'[1].body) ]_vars

\* A patch reset some_setting and set extra: the first is gone, the second
\* holds its value, and retry_limit and feature_enabled are as at the start.
C24_Witness ==
  /\ call.op = "UpdateGlobalConfig"
  /\ call.args.settings = [k \in { sSomeSetting, << "e", "x", "t", "r", "a" >> } |->
                             IF k = sSomeSetting THEN Nil ELSE Ptr(<< "7" >>)]
  /\ result.kind = "ok"
  /\ DOMAIN globalConfig = { sFeatureEnabled, sRetryLimit, << "e", "x", "t", "r", "a" >> }
  /\ globalConfig[<< "e", "x", "t", "r", "a" >>] = << "7" >>
  /\ globalConfig[sRetryLimit] = << "5" >>

\* The setting retry_limit was deleted from the state by a PATCH of
\* {retry_limit: null}.
C24_Reset ==
  /\ call.op = "Delete"
  /\ call.args.kind = "global_config"
  /\ Len(wire) = 1
  /\ wire[1].body = ResetOf(sRetryLimit)
  /\ sRetryLimit \notin DOMAIN globalConfig
  /\ tfstate = NoResource
(***************************************************************************)
(* Reload: the test flag                                                   *)
(***************************************************************************)

Reloaded ==
  /\ call.op = "Open"
  /\ call.args.operation = << "r", "e", "l", "o", "a", "d" >>
  /\ wire # <<>>

\* C25: every request of ReloadInstances and ReloadInstance carries the
\* query test=true or test=false when the caller gave the flag, with the
\* value given, and no query at all when the flag was omitted; the control
\* plane then runs each reload it accepts with the value given, and with
\* test = true when the flag was omitted.
C25_TestFlag ==
  Reloaded
    => /\ \A i \in 1..Len(wire) :
            wire[i].query = IF call.args.test.set
                            THEN << "t", "e", "s", "t", "=" >> \o RenderBool(call.args.test.val)
                            ELSE <<>>
       /\ \A j \in 1..Len(applied) :
            applied[j].test = IF call.args.test.set THEN call.args.test.val ELSE TRUE

\* Two hosts were reloaded with the flag omitted: no query was sent, and the
\* control plane ran both reloads as tests.
C25_Witness ==
  /\ Reloaded
  /\ ~call.args.test.set
  /\ Len(wire) = 2
  /\ wire[1].query = <<>>
  /\ Len(applied) = 2
  /\ applied[1].test /\ applied[2].test

\* The collection was reloaded with test = false.
C25_NotATest ==
  /\ Reloaded
  /\ call.args.test = [set |-> TRUE, val |-> FALSE]
  /\ call.args.hostnames.values = <<>>
  /\ wire[1].query = << "t", "e", "s", "t", "=", "f", "a", "l", "s", "e" >>
  /\ Len(applied) = 1
  /\ ~applied[1].test
(***************************************************************************)
(* Success without data                                                    *)
(***************************************************************************)

\* The response is a success that carries nothing to decode: 2xx with an
\* empty body, or 2xx with an ok/success envelope whose data is missing or
\* null.
SucceededWithoutData ==
  /\ Answered
  /\ Is2xx(reply.code)
  /\ \/ Len(reply.body.raw) = 0
     \/ /\ EnvelopeParsed
        /\ SaysOk
        /\ reply.body.data.kind \in { "absent", "null" }

\* C26: when the caller supplied a destination and the response is a success
\* without data (missing or null data in the envelope, or an empty 2xx body),
\* do returns success and the destination is as the caller passed it.
C26_MissingDataIsSuccess ==
  (call.wantOut /\ SucceededWithoutData)
    => /\ result.kind = "ok"
       /\ result.out = Unset

\* GetService was answered 200 with {"status":"OK","data":null}.
C26_Witness ==
  /\ call.op = "GetService"
  /\ call.wantOut
  /\ reply.code = 200
  /\ reply.body = DocOkUpperNull
  /\ result = ResOk(Unset)

\* CreateService was answered 201 with an empty body.
C26_EmptyBody ==
  /\ call.op = "CreateService"
  /\ call.wantOut
  /\ reply.code = 201
  /\ reply.body = DocEmpty
  /\ ~reply.neterr
  /\ result = ResOk(Unset)

\* UpdateService was answered 200 with {"status":"ok"}, without data.
C26_NoData ==
  /\ call.op = "UpdateService"
  /\ reply.code = 200
  /\ reply.body = DocOk
  /\ result = ResOk(Unset)
(***************************************************************************)
(* The client's mutable state                                              *)
(***************************************************************************)

\* C27: the token changes only in a step that is a Login returning success;
\* a Login that fails, locally, in transport, in decoding or with an API
\* error, and every other method leave the token as it was, and no step
\* changes the configured credentials or the base URL, so the Authorization
\* header of the next request is what it was before.
C27_TokenFrame ==
  [][ /\ UNCHANGED << basePath, apiUsername, apiPassword >>
      /\ ~(call'.op = "Login" /\ result'.kind = "ok")
           => /\ apiToken' = apiToken
              /\ AuthHeader(apiToken', apiUsername', apiPassword')
                   = AuthHeader(apiToken, apiUsername, apiPassword) ]_vars

\* A Login was refused with 401 by the control plane and the client still
\* holds the token it was built with.
C27_Witness ==
  /\ call.op = "Login"
  /\ call.server = "api"
  /\ wire # <<>>
  /\ result.kind = "api"
  /\ result.code = 401
  /\ apiToken = << "t", "0" >>

\* A Login was refused locally after an earlier Login had stored a token.
C27_LocalRefusal ==
  /\ call.op = "Login"
  /\ result.kind = "local"
  /\ wire = <<>>
  /\ lastToken.set
  /\ apiToken = lastToken.val
  /\ apiToken # <<>>
(***************************************************************************)
(* Upload-update without relocation                                        *)
(***************************************************************************)

\* An accepted upload-update of a stored config that sets none of
\* new_service, new_type and new_name.
UploadInPlace ==
  /\ call'.op = "UpdateConfigFromUpload"
  /\ result'.kind = "ok"
  /\ StoredBefore(Identity(call'.args.key))
  /\ ~call'.args.input.newService.set
  /\ ~call'.args.input.newType.set
  /\ ~call'.args.input.newName.set

\* The (service, type, name) of the configs the control plane holds.
StoredIdentities(cfgs) ==
  { << cfgs[k].service, cfgs[k].type, cfgs[k].name >> : k \in DOMAIN cfgs }

\* C28: an upload-update that sets none of new_service, new_type and
\* new_name leaves the config readable at the addressed key with the
\* uploaded content, for global and for service-scoped keys, and the control
\* plane holds configs under the same keys as before: none appears under, or
\* moves to, another key.
C28_UploadInPlace ==
  [][ UploadInPlace
        => /\ GetAfter(call'.args.key).kind = "ok"
           /\ GetAfter(call'.args.key).out.val.config.data = call'.args.input.content
           /\ StoredIdentities(configs') = StoredIdentities(configs) ]_vars

(***************************************************************************)
(* The ban_bulk ephemeral resource                                         *)
(***************************************************************************)

\* The ip test of toBanRequests and toUnbanRequests: null or blank is an
\* attribute error.
entryMissingIP(entry) == ~entry.ip.set \/ TrimSpace(entry.ip.val) = <<>>

\* An optional string attribute as the requests carry it: trimmed, and left
\* out when null or blank.
trimmedAttribute(attr) ==
  IF attr.set /\ TrimSpace(attr.val) # <<>> THEN Ptr(TrimSpace(attr.val)) ELSE Nil

\* toBanRequests: [reqs, error]; an entry without an IP is reported and
\* left out.
RECURSIVE toBanRequests(_)
toBanRequests(entries) ==
  IF entries = <<>> THEN [reqs |-> <<>>, error |-> FALSE]
  ELSE IF entryMissingIP(Head(entries))
       THEN [reqs |-> toBanRequests(Tail(entries)).reqs, error |-> TRUE]
       ELSE [reqs |-> << [ip |-> TrimSpace(Head(entries).ip.val),
                          exp |-> Head(entries).expiresIn,
                          reason |-> trimmedAttribute(Head(entries).reason),
                          service |-> trimmedAttribute(Head(entries).service)] >>
                        \o toBanRequests(Tail(entries)).reqs,
             error |-> toBanRequests(Tail(entries)).error]

\* toUnbanRequests: [reqs, error]
RECURSIVE toUnbanRequests(_)
toUnbanRequests(entries) ==
  IF entries = <<>> THEN [reqs |-> <<>>, error |-> FALSE]
  ELSE IF entryMissingIP(Head(entries))
       THEN [reqs |-> toUnbanRequests(Tail(entries)).reqs, error |-> TRUE]
       ELSE [reqs |-> << [ip |-> TrimSpace(Head(entries).ip.val),
                          service |-> trimmedAttribute(Head(entries).service)] >>
                        \o toUnbanRequests(Tail(entries)).reqs,
             error |-> toUnbanRequests(Tail(entries)).error]

sBansBan == << "b", "a", "n", "s", "/", "b", "a", "n" >>

sBansUnban == << "b", "a", "n", "s", "/", "u", "n", "b", "a", "n" >>

openBatches_UnbanFirst(banReqs, unbanReqs, banVia, unbanVia) ==
  (IF Len(unbanReqs) > 0
   THEN << [summary |-> << "U", "n", "b", "a", "n", " ", "B", "u", "l", "k" >>, endpoint |-> sBansUnban, body |-> unbanReqs,
            via |-> unbanVia] >>
   ELSE <<>>)
  \o (IF Len(banReqs) > 0
      THEN << [summary |-> << "B", "a", "n", " ", "B", "u", "l", "k" >>, endpoint |-> sBansBan, body |-> banReqs,
               via |-> banVia] >>
      ELSE <<>>)

\* Open, lines 149-161: the client calls Open makes, in order; a list
\* without requests makes none.
openBatches(banReqs, unbanReqs, banVia, unbanVia) ==
  (IF Len(banReqs) > 0
   THEN << [summary |-> << "B", "a", "n", " ", "B", "u", "l", "k" >>, endpoint |-> sBansBan, body |-> banReqs,
            via |-> banVia] >>
   ELSE <<>>)
  \o (IF Len(unbanReqs) > 0
      THEN << [summary |-> << "U", "n", "b", "a", "n", " ", "B", "u", "l", "k" >>, endpoint |-> sBansUnban, body |-> unbanReqs,
               via |-> unbanVia] >>
      ELSE <<>>)

\* One batch of Open on its way: the control plane answers over the bans
\* bns, or the transport hands back the response of via.
batchAnswered(req, via, bns) ==
  IF via.server = "api" THEN handle(req, configs, bns, instances)
  ELSE [resp |-> via.resp, configs |-> configs, bans |-> bns, instances |-> instances]

\* Open after its client calls: sent went out, exchange answered the last
\* of them; a failed call is the diagnostic, success is the result with the
\* two counts.
openConcluded(sent, exchange, summary, counts) ==
  /\ wire' = sent
  /\ reply' = exchange.resp
  /\ configs' = exchange.configs
  /\ bans' = exchange.bans
  /\ instances' = exchange.instances
  /\ globalConfig' = globalConfig
  /\ applied' = <<>>
  /\ result' = IF do(reply', FALSE).kind = "ok" THEN ResOk(Ptr(counts)) ELSE do(reply', FALSE)
  /\ diags' = IF result'.kind = "ok" THEN NoDiags ELSE AddError(summary, ErrorText(result'))

\* The second client call, made after the first returned without error.
openSecond(first, second, batch, exchange, counts) ==
  openConcluded(<< first, second >>, exchange, batch.summary, counts)

\* The first client call; its error ends Open.
openFirst(batches, first, exchange, counts) ==
  IF Len(batches) = 1 \/ do(exchange.resp, FALSE).kind # "ok"
  THEN openConcluded(<< first >>, exchange, batches[1].summary, counts)
  ELSE openSecond(first, Request("POST", batches[2].endpoint, batches[2].body), batches[2],
                  batchAnswered(Request("POST", batches[2].endpoint, batches[2].body),
                                batches[2].via, exchange.bans),
                  counts)

\* Open after both lists converted without error.
openSend(batches, counts) ==
  IF batches = <<>>
  THEN /\ wire' = <<>>
       /\ reply' = NoReply
       /\ UNCHANGED controlPlane
       /\ applied' = <<>>
       /\ result' = ResOk(Ptr(counts))
       /\ diags' = NoDiags
  ELSE openFirst(batches, Request("POST", batches[1].endpoint, batches[1].body),
                 batchAnswered(Request("POST", batches[1].endpoint, batches[1].body),
                               batches[1].via, bans),
                 counts)

\* Open stopped by the attribute errors of a conversion.
openInvalid ==
  /\ wire' = <<>>
  /\ reply' = NoReply
  /\ UNCHANGED controlPlane
  /\ applied' = <<>>
  /\ result' = ResLocal
  /\ diags' = AddError(<< "M", "i", "s", "s", "i", "n", "g", " ", "I", "P" >>, <<>>)

\* BunkerWebBanBulkEphemeralResource.Open
BanBulkOpen(data, banVia, unbanVia) ==
  /\ call' = Called("BanBulkOpen", [bans |-> data.bans, unbans |-> data.unbans,
                             banVia |-> banVia, unbanVia |-> unbanVia], FALSE, "api")
  /\ UNCHANGED << client, tfstate, lastToken >>
  /\ IF toBanRequests(data.bans).error \/ toUnbanRequests(data.unbans).error
     THEN openInvalid
     ELSE openSend(openBatches(toBanRequests(data.bans).reqs, toUnbanRequests(data.unbans).reqs,
                               banVia, unbanVia),
                   [bans |-> Len(toBanRequests(data.bans).reqs),
                    unbans |-> Len(toUnbanRequests(data.unbans).reqs)])

\* Entries of the bans list: an address to trim, a service-scoped ban with
\* its settings, a null and a blank address.
BanEntry(ip, service, reason, expiresIn) ==
  [ip |-> ip, service |-> service, reason |-> reason, expiresIn |-> expiresIn]

BanLists ==
  { <<>>,
    << BanEntry(Ptr(<< " " >> \o sIP), Nil, Nil, Nil) >>,
    << BanEntry(Ptr(sIP), Nil, Ptr(<< "s", "p", "a", "m" >>), Nil),
       BanEntry(Ptr(sIP2), Ptr(sWeb), Nil, [set |-> TRUE, val |-> 60]) >>,
    << BanEntry(Ptr(sIP2), Nil, Nil, Nil), BanEntry(Nil, Nil, Nil, Nil) >>,
    << BanEntry(Ptr(<< " " >>), Ptr(sWeb), Nil, Nil) >> }

UnbanEntry(ip, service) == [ip |-> ip, service |-> service]

UnbanLists ==
  { <<>>,
    << UnbanEntry(Ptr(sIP), Nil) >>,
    << UnbanEntry(Ptr(sIP2), Ptr(sWeb)), UnbanEntry(Ptr(sIP), Ptr(<< " " >>)) >>,
    << UnbanEntry(Ptr(sIP), Nil), UnbanEntry(Ptr(<<>>), Nil) >> }

\* How a batch of Open is answered: by the control plane, or by a transport
\* that fails or returns a server error.
OpenTransports ==
  { [server |-> "api", resp |-> NoReply],
    [server |-> "raw", resp |-> NetworkFailure],
    [server |-> "raw", resp |-> Response(599, StatusLine(599), DocError)] }

NextBanBulk ==
  \E b \in BanLists, u \in UnbanLists, bv \in OpenTransports, uv \in OpenTransports :
    BanBulkOpen([bans |-> b, unbans |-> u], bv, uv)

SpecBanBulk == InitConfig /\ [][NextBanBulk]_vars

IsBanBatch(req) == req.method = "POST" /\ req.path = << "/" >> \o sBansBan

IsUnbanBatch(req) == req.method = "POST" /\ req.path = << "/" >> \o sBansUnban

EntriesValid(entries) ==
  \A i \in 1..Len(entries) : entries[i].ip.set /\ ~Blank(entries[i].ip.val)

\* C29: an Open with an entry without an IP in either list sends nothing,
\* changes nothing and reports an error.  Otherwise it sends at most one ban
\* batch and one unban batch, the ban batch first, and none for an empty
\* list; when the ban batch fails, the ban batch is all it sends and the
\* error is "Ban Bulk"; when the ban batch is applied and the unban batch
\* fails, the error is "Unban Bulk" and the bans of the batch stay in the
\* control plane as the ban batch left them.
C29_BanThenUnban ==
  [][ call'.op = "BanBulkOpen" =>
        IF ~(EntriesValid(call'.args.bans) /\ EntriesValid(call'.args.unbans))
        THEN wire' = <<>> /\ diags'.error /\ UNCHANGED controlPlane
        ELSE /\ Len(wire') <= 2
             /\ \A i \in 1..Len(wire') : IsBanBatch(wire'[i]) \/ IsUnbanBatch(wire'[i])
             /\ \A i, j \in 1..Len(wire') :
                  IsBanBatch(wire'[i]) /\ IsUnbanBatch(wire'[j]) => i < j
             /\ (call'.args.bans = <<>>) = (\A i \in 1..Len(wire') : ~IsBanBatch(wire'[i]))
             /\ call'.args.unbans = <<>> => \A i \in 1..Len(wire') : ~IsUnbanBatch(wire'[i])
             /\ call'.args.bans # <<>> =>
                  /\ IsBanBatch(wire'[1])
                  /\ Len(wire'[1].body) = Len(call'.args.bans)
                  /\ IF call'.args.banVia.server = "raw"
                     THEN /\ Len(wire') = 1
                          /\ diags'.error
                          /\ diags'.summary = << "B", "a", "n", " ", "B", "u", "l", "k" >>
                          /\ UNCHANGED controlPlane
                     ELSE (call'.args.unbans = <<>> \/ call'.args.unbanVia.server = "raw") =>
                            /\ bans' = applyBans(wire'[1].body, bans)
                            /\ \A i \in 1..Len(call'.args.bans) :
                                 banStorageKey(TrimSpace(call'.args.bans[i].ip.val),
                                               ScopeOf(call'.args.bans[i].service))
                                   \in DOMAIN bans'
             /\ call'.args.unbans # <<>>
                  /\ (call'.args.bans = <<>> \/ call'.args.banVia.server = "api") =>
                  /\ Len(wire') = (IF call'.args.bans = <<>> THEN 1 ELSE 2)
                  /\ IsUnbanBatch(wire'[Len(wire')])
                  /\ Len(wire'[Len(wire')].body) = Len(call'.args.unbans)
                  /\ call'.args.unbanVia.server = "raw" =>
                       /\ diags'.error
                       /\ diags'.summary = << "U", "n", "b", "a", "n", " ", "B", "u", "l", "k" >>
                       /\ call'.args.bans = <<>> => bans' = bans
             /\ (call'.args.bans = <<>> \/ call'.args.banVia.server = "api")
                  /\ (call'.args.unbans = <<>> \/ call'.args.unbanVia.server = "api")
                  => ~diags'.error /\ result'.kind = "ok" ]_vars

\* Both lists were valid, the control plane applied the ban batch and the
\* transport failed on the unban batch: two requests went out, the error is
\* "Unban Bulk", and the two bans of the batch are in the control plane.
C29_Witness ==
  /\ call.op = "BanBulkOpen"
  /\ Len(call.args.bans) = 2
  /\ Len(call.args.unbans) = 2
  /\ call.args.banVia.server = "api"
  /\ call.args.unbanVia.server = "raw"
  /\ Len(wire) = 2
  /\ diags.summary = << "U", "n", "b", "a", "n", " ", "B", "u", "l", "k" >>
  /\ sIP \in DOMAIN bans
  /\ sIP2 \o << "|" >> \o sWeb \in DOMAIN bans

\* The ban batch failed in transport and nothing else was sent.
C29_BanFailed ==
  /\ call.op = "BanBulkOpen"
  /\ call.args.unbans # <<>>
  /\ call.args.banVia.server = "raw"
  /\ Len(wire) = 1
  /\ diags.summary = << "B", "a", "n", " ", "B", "u", "l", "k" >>

(***************************************************************************)
(* deriveServiceIdentifier                                                 *)
(***************************************************************************)

\* strings.Fields(s)[0] for an s that does not start with white space: the
\* characters before the first white space.
RECURSIVE firstField(_)
firstField(s) ==
  IF s = <<>> \/ IsSpace(Head(s)) THEN <<>> ELSE << Head(s) >> \o firstField(Tail(s))

identifierRune_KeepUnderscore(r) ==
  IF (Ord(r) >= 97 /\ Ord(r) <= 122) \/ (Ord(r) >= 48 /\ Ord(r) <= 57) \/ r \in { ".", "-", "_" }
  THEN << r >>
  ELSE IF r = " " THEN << "-" >>
  ELSE <<>>

\* The switch of the loop: what one rune of the identifier writes to the
\* builder.
identifierRune(r) ==
  IF (Ord(r) >= 97 /\ Ord(r) <= 122) \/ (Ord(r) >= 48 /\ Ord(r) <= 57) \/ r \in { ".", "-" }
  THEN << r >>
  ELSE IF r \in { "_", " " } THEN << "-" >>
  ELSE <<>>

\* The loop over the identifier.
RECURSIVE writeRunes(_)
writeRunes(identifier) ==
  IF identifier = <<>> THEN <<>>
  ELSE identifierRune(Head(identifier)) \o writeRunes(Tail(identifier))

sService == << "s", "e", "r", "v", "i", "c", "e" >>

deriveServiceIdentifier(serverName) ==
  IF TrimSpace(serverName) = <<>> THEN sService
  ELSE IF writeRunes(ToLower(firstField(TrimSpace(serverName)))) = <<>> THEN sService
  ELSE writeRunes(ToLower(firstField(TrimSpace(serverName))))

\* A call of deriveServiceIdentifier; nothing else moves.
Derived(serverName) ==
  /\ call' = Called("deriveServiceIdentifier", [serverName |-> serverName], TRUE, "api")
  /\ result' = ResOk(Ptr(deriveServiceIdentifier(serverName)))
  /\ wire' = <<>>
  /\ reply' = NoReply
  /\ applied' = <<>>
  /\ UNCHANGED << client, controlPlane, provider, lastToken >>

\* deriveServiceIdentifier applied to the name at hand.
DeriveServiceIdentifier ==
  /\ call.op = "serverName"
  /\ Derived(call.args.serverName)

\* deriveServiceIdentifier applied to the identifier it returned last.
DeriveAgain ==
  /\ call.op = "deriveServiceIdentifier"
  /\ Derived(result.out.val)

MaxNameLen == 3

NameChars == { "A", "b", "7", ".", "-", "_", " ", "\t", "!" }

ServerNames == UNION { [1..n -> NameChars] : n \in 0..MaxNameLen }

\* A client and a control plane as newBunkerWebClient leaves them, with a
\* server name at hand.
InitDerive ==
  \E n \in ServerNames :
    /\ basePath = NormalizeBasePath(<<>>)
    /\ apiToken = <<>>
    /\ apiUsername = <<>>
    /\ apiPassword = <<>>
    /\ configs = EmptyMap
    /\ bans = EmptyMap
    /\ instances = EmptyMap
    /\ globalConfig = InitialGlobalConfig
    /\ call = Called("serverName", [serverName |-> n], FALSE, "api")
    /\ wire = <<>>
    /\ reply = NoReply
    /\ result = ResOk(Unset)
    /\ applied = <<>>
    /\ tfstate = NoResource
    /\ diags = NoDiags
    /\ lastToken = Nil

NextDerive ==
  \/ DeriveServiceIdentifier
  \/ DeriveAgain

SpecDerive == InitDerive /\ [][NextDerive]_vars

IdentifierChars ==
  { Chr(n) : n \in 97..122 } \cup { Chr(n) : n \in 48..57 } \cup { ".", "-" }

\* The first white-space-separated token of a name, empty when it has none.
RECURSIVE FirstToken(_)
FirstToken(s) ==
  IF s = <<>> THEN <<>>
  ELSE IF IsSpace(Head(s)) THEN FirstToken(Tail(s))
  ELSE IF \E i \in 1..Len(s) : IsSpace(s[i])
       THEN SubSeq(s, 1, (CHOOSE i \in 1..Len(s) : IsSpace(s[i]) /\ \A j \in 1..(i - 1) : ~IsSpace(s[j])) - 1)
       ELSE s

\* A token lower-cased, with '_' as '-' and every character outside
\* a-z, 0-9, '.', '-' dropped.
Cleaned(token) ==
  LET mapped == [i \in 1..Len(token) |->
                   IF token[i] = "_" THEN "-" ELSE ToLowerChar(token[i])]
  IN SelectSeq(mapped, LAMBDA ch : ch \in IdentifierChars)

\* C30: for every server name deriveServiceIdentifier returns a non-empty
\* string of the characters a-z, 0-9, '.' and '-': the lower-cased first
\* white-space-separated token with '_' as '-' and all other characters
\* dropped, or "service" when nothing remains; applied to what it returned
\* it returns the same string.
C30_DeriveTotalIdempotent ==
  call.op = "deriveServiceIdentifier" =>
    /\ result.kind = "ok"
    /\ result.out.val # <<>>
    /\ \A i \in 1..Len(result.out.val) : result.out.val[i] \in IdentifierChars
    /\ result.out.val = IF Cleaned(FirstToken(call.args.serverName)) = <<>> THEN sService
                        ELSE Cleaned(FirstToken(call.args.serverName))
    /\ deriveServiceIdentifier(result.out.val) = result.out.val

\* A name with leading white space, an upper-case letter and an underscore
\* was derived to "a-".
C30_Witness ==
  /\ call.op = "deriveServiceIdentifier"
  /\ call.args.serverName = << " ", "A", "_" >>
  /\ result.out.val = << "a", "-" >>

\* A name whose first token has no identifier character gives "service".
C30_Fallback ==
  /\ call.op = "deriveServiceIdentifier"
  /\ call.args.serverName = << "!", " ", "b" >>
  /\ result.out.val = sService

====
